---------------------------- MODULE Spec2Model ----------------------------
(***************************************************************************)
(* Daemon Arena: the match server (server.js: payments, custom matches,    *)
(* matchmaking queue, submissions), its SQLite layer (database.js) and the *)
(* ERC-8004 registration (erc8004.js).                                      *)
(*                                                                         *)
(* Every route handler is an async function: between two awaits other      *)
(* handlers run.  A handler is therefore a request record with a program   *)
(* counter, and one action per stretch of code between awaits whose order  *)
(* with other handlers matters.  Reads of the chain (receipts and          *)
(* transactions are immutable once mined) are folded into the step that    *)
(* follows them.                                                           *)
(*                                                                         *)
(* Wei amounts are small integers: the entry fee of 0.0001 ETH stands at   *)
(* 10 in place of 10^14; the arithmetic on amounts is the code's BigInt    *)
(* arithmetic (integer division truncates).                                *)
(***************************************************************************)
EXTENDS Integers, Sequences, FiniteSets, TLC

\* ------------------------------------------------------------ bounds
MaxReq == 3          \* requests started in one behaviour of Spec

\* ------------------------------------------------------------ values
NULL == "NULL"                  \* SQL NULL / JS null in a text column
NoMatch == <<"null", 0>>        \* NULL in a match-id column
NoTx == "none"                  \* request body without txHash
NoPayment == <<"pay", 0>>      \* no last_payment_id
NoKey == "nokey"                \* request without (or with an unknown) X-API-Key
NoTime == -1                    \* NULL in started_at

ARENA_WALLET == "arena"
ENTRY_FEE_WEI == 10
PracticeBotId == "practice-bot-001"

OTHER_WALLET == "other"

\* The registered agents of the running server (rows of the agents table).
AgentIds == {"a1", "a2"}
WalletOf(a) == IF a = "a1" THEN "w1" ELSE IF a = "a2" THEN "w2" ELSE "0x0"
TokenOf(a) == IF a = "a1" THEN 1 ELSE IF a = "a2" THEN 2 ELSE 0
ApiKeyOf(a) == IF a = "a1" THEN "k1" ELSE IF a = "a2" THEN "k2" ELSE "practice_bot_internal_key"

\* ------------------------------------------------------------ the chain
\* Base mainnet as publicClient reads it: hash -> receipt status and
\* transaction (to, value, from).  "tNone" is not on chain.
Chain ==
  [ t1    |-> [status |-> "success",  to |-> ARENA_WALLET, value |-> 10, from |-> "w1"],
    t2    |-> [status |-> "success",  to |-> ARENA_WALLET, value |-> 13, from |-> "w2"],
    t3    |-> [status |-> "success",  to |-> ARENA_WALLET, value |-> 10, from |-> "w2"],
    tLow  |-> [status |-> "success",  to |-> ARENA_WALLET, value |-> 9,  from |-> "w1"],
    tRev  |-> [status |-> "reverted", to |-> ARENA_WALLET, value |-> 10, from |-> "w1"],
    tElse |-> [status |-> "success",  to |-> OTHER_WALLET, value |-> 10, from |-> "w1"] ]

OnChain(tx) == tx \in DOMAIN Chain

VARIABLES
  agents,          \* agents table: id -> row
  payments,        \* payments table: set of rows, tx_hash UNIQUE
  paymentStatus,   \* agent_payment_status table: agent -> last_payment_id
  matches,         \* matches table: id -> row
  submissions,     \* submissions table, in submitted_at order
  matchQueue,      \* const matchQueue = []
  pendingChallenges, \* erc8004.js: nonce -> challenge
  issued,          \* history: the challenges generateChallenge returned, by nonce
  reqs,            \* the requests received in this behaviour, each with its position
  payouts,         \* sendPayout calls made so far, in order
  timers,          \* pending setTimeout callbacks of /submit (match ids)
  feed,            \* broadcastSSE: the events sent (and saved as feed_events)
  accepted,        \* history: <<txHash, matchId>>, the hash was taken as entry payment of the match
  now,             \* the wall clock, in minutes since the server started
  checker          \* the run of the timeout checker (setInterval callback) in progress

vars == <<agents, payments, paymentStatus, matches, submissions, matchQueue,
          pendingChallenges, issued, reqs, payouts, timers, feed, accepted,
          now, checker>>


\* ------------------------------------------------------------ challenges
\* challenges.js (ChallengeGenerator) is required by server.js but its text
\* is not part of src/: generation is modelled from the specification
\* (sections 3, 4.1-4.5, 6).
ChallengeTypes == <<"cipher_break", "code_golf", "hash_hunt">>

\* 4.1: the generator's whole state is the seed and a position counter;
\* the draw at a position is a fixed function of both.
SeededDraw(seed, pos, n) == (seed * 5 + pos * 3 + seed * pos) % n

\* 4.5 / SKILL.md: required leading zeros by difficulty.
ZerosFor(difficulty) == IF difficulty <= 2 THEN 2 ELSE difficulty

\* 4.3: the family's own reference implementation of the drawn problem.
ReferenceSolve(problem, input) == IF problem = 0 THEN input * input ELSE input + problem

generateChallenge(type, difficulty, seed) ==
  LET t == IF type \in {ChallengeTypes[i] : i \in 1..3}
           THEN type
           ELSE ChallengeTypes[1 + SeededDraw(seed, 0, 3)]
  IN CASE t = "cipher_break" ->
            LET p == SeededDraw(seed, 1, 4)
                k == 1 + SeededDraw(seed, 2, 3)
            IN [type |-> t, difficulty |-> difficulty, timeLimit |-> 120,
                title |-> "Cipher Break", description |-> "decode",
                cipher_type |-> "caesar", ciphertext |-> (p + k) % 4,
                answer |-> p]
       [] t = "code_golf" ->
            LET q == SeededDraw(seed, 1, 3)
            IN [type |-> t, difficulty |-> difficulty, timeLimit |-> 300,
                title |-> "Code Golf", description |-> q,
                examples |-> << [input |-> 1, output |-> ReferenceSolve(q, 1)] >>,
                testCases |-> << [input |-> 2, expected |-> ReferenceSolve(q, 2)],
                                 [input |-> 3, expected |-> ReferenceSolve(q, 3)] >>]
       [] OTHER ->
            [type |-> "hash_hunt", difficulty |-> difficulty, timeLimit |-> 180,
             title |-> "Hash Hunt", description |-> "find",
             hunt_type |-> "leading_zeros", zeros |-> ZerosFor(difficulty),
             salt |-> SeededDraw(seed, 1, 4)]

\* crypto.randomBytes(16).toString('hex'): any seed.
Seeds == {1, 2}

\* ------------------------------------------------------------ database.js
EmptyObject == <<>>             \* challenge_data '{}'

MatchId(n) == <<"uuid", n>>     \* the n-th crypto.randomUUID() of matches
RowIdStr(n) == <<"rowid", n>>   \* (rowid n).toString()

getAgentByApiKey(key) ==
  IF \E a \in DOMAIN agents : agents[a].api_key = key
  THEN CHOOSE a \in DOMAIN agents : agents[a].api_key = key
  ELSE NULL

getPaymentByTxHash(txHash) == {p \in payments : p.tx_hash = txHash}

RECURSIVE SumAmounts(_)
SumAmounts(S) ==
  IF S = {} THEN 0
  ELSE LET p == CHOOSE q \in S : TRUE IN p.amount_wei + SumAmounts(S \ {p})

getAgentPaymentBalance(agentId) ==
  SumAmounts({p \in payments : p.agent_id = agentId})

canAgentAffordMatch(agentId, entryFeeWei) ==
  getAgentPaymentBalance(agentId) >= entryFeeWei

\* recordPayment: the INSERT fails on the UNIQUE tx_hash; otherwise the row
\* is added and agent_payment_status replaced.
PaymentRow(agentId, txHash, amountWei, fromWallet, matchId) ==
  [id |-> <<"pay", Cardinality(payments) + 1>>, agent_id |-> agentId,
   tx_hash |-> txHash, amount_wei |-> amountWei, from_wallet |-> fromWallet,
   match_id |-> matchId]

recordPaymentFails(txHash) == getPaymentByTxHash(txHash) # {}

recordPayment(agentId, txHash, amountWei, fromWallet, matchId) ==
  LET row == PaymentRow(agentId, txHash, amountWei, fromWallet, matchId)
  IN /\ payments' = payments \cup {row}
     /\ paymentStatus' = [paymentStatus EXCEPT ![agentId] = row.id]

\* createCustomMatch: the row it inserts (difficulty is not stored).
CustomMatchRow(id, creatorId, challengeType, entryFeeWei, challengeSeed) ==
  [id |-> id, agent1_id |-> creatorId, agent2_id |-> "",
   challenge_type |-> challengeType, challenge_data |-> EmptyObject,
   status |-> "open", winner_id |-> NULL, started_at |-> NoTime,
   time_limit |-> 300, entry_fee_wei |-> entryFeeWei,
   creator_id |-> creatorId, opponent_id |-> NULL,
   pot_wei |-> 0, arena_cut_wei |-> 0, winner_payout_wei |-> 0,
   challenge_seed |-> challengeSeed, is_practice |-> 0,
   elo_change_agent1 |-> 0, elo_change_agent2 |-> 0]

\* joinCustomMatch: pot, 10% cut and payout from the stored entry fee.
PotWei(entryFeeWei) == entryFeeWei * 2
\* A variant of ArenaCutWei that rounds the cut up.
ArenaCutWeiCeil(potWei) == (potWei + 9) \div 10

ArenaCutWei(potWei) == potWei \div 10
WinnerPayoutWei(potWei, arenaCutWei) == potWei - arenaCutWei

joinCustomMatch(matchId, opponentId, challengeData, timeLimit) ==
  LET potWei == PotWei(matches[matchId].entry_fee_wei)
      arenaCutWei == ArenaCutWei(potWei)
  IN matches' = [matches EXCEPT ![matchId] =
       [@ EXCEPT !.agent2_id = opponentId, !.opponent_id = opponentId,
                 !.status = "active", !.challenge_data = challengeData,
                 !.time_limit = timeLimit, !.started_at = now,
                 !.pot_wei = potWei, !.arena_cut_wei = arenaCutWei,
                 !.winner_payout_wei = WinnerPayoutWei(potWei, arenaCutWei)]]

\* ------------------------------------------------------------ timeout checker
\* No run of the setInterval callback is in progress.
Idle == [pc |-> "idle", at |-> 0, queue |-> {}, cur |-> EmptyObject, correct |-> <<>>]

\* ------------------------------------------------------------ requests
Reqs == 1..Len(reqs)
Running(r, kind, pc) == reqs[r].kind = kind /\ reqs[r].pc = pc
Error(status, msg) == [status |-> status, error |-> msg]
Finish(r, resp) == reqs' = [reqs EXCEPT ![r] = [@ EXCEPT !.pc = "done", !.resp = resp]]
Goto(r, pc) == reqs' = [reqs EXCEPT ![r] = [@ EXCEPT !.pc = pc]]
Pending == [status |-> 0]
broadcastSSE(event, data) == feed' = feed \cup {[event |-> event, data |-> data]}


\* ------------------------------------------------------------ POST /api/match/pay
\* A variant of PayVerdict that does not compare the sender with the
\* agent's wallet.
PayVerdictAnySender(txHash, agentId) ==
  IF ~OnChain(txHash) THEN "Transaction not found on blockchain"
  ELSE IF Chain[txHash].status # "success" THEN "Transaction not found or failed"
  ELSE IF Chain[txHash].to # ARENA_WALLET THEN "Transaction not sent to arena wallet"
  ELSE IF Chain[txHash].value < ENTRY_FEE_WEI THEN "Insufficient payment amount"
  ELSE IF agents[agentId].wallet = NULL THEN "Agent has no registered wallet"
  ELSE "ok"

\* The checks of /pay after the lookup of the hash: receipt found and
\* successful, sent to the arena wallet, worth the entry fee, agent has a
\* wallet, sent by that wallet.  The first failing check decides the answer.
PayVerdict(txHash, agentId) ==
  IF ~OnChain(txHash) THEN "Transaction not found on blockchain"
  ELSE IF Chain[txHash].status # "success" THEN "Transaction not found or failed"
  ELSE IF Chain[txHash].to # ARENA_WALLET THEN "Transaction not sent to arena wallet"
  ELSE IF Chain[txHash].value < ENTRY_FEE_WEI THEN "Insufficient payment amount"
  ELSE IF agents[agentId].wallet = NULL THEN "Agent has no registered wallet"
  ELSE IF Chain[txHash].from # agents[agentId].wallet THEN "Transaction sender does not match registered wallet"
  ELSE "ok"

\* A variant of PayStart for a route registered without authenticateAgent.
PayStartOpen(key, txHash, matchId) ==
  /\ LET a == getAgentByApiKey(key)
         req == [kind |-> "pay", pc |-> "pay_check", agent |-> a, txHash |-> txHash,
                 matchId |-> matchId, resp |-> Pending]
     IN reqs' = Append(reqs,
          IF txHash = NoTx THEN [req EXCEPT !.pc = "done", !.resp = Error(400, "txHash is required")]
          ELSE req)
  /\ UNCHANGED <<now, checker, agents, payments, paymentStatus, matches, submissions, matchQueue,
                 pendingChallenges, issued, payouts, timers, feed, accepted>>

PayStart(key, txHash, matchId) ==
  /\ LET a == getAgentByApiKey(key)
         req == [kind |-> "pay", pc |-> "pay_check", agent |-> a, txHash |-> txHash,
                 matchId |-> matchId, resp |-> Pending]
     IN reqs' = Append(reqs,
          IF a = NULL THEN [req EXCEPT !.pc = "done", !.resp = Error(401, "Invalid API key")]
          ELSE IF txHash = NoTx THEN [req EXCEPT !.pc = "done", !.resp = Error(400, "txHash is required")]
          ELSE req)
  /\ UNCHANGED <<now, checker, agents, payments, paymentStatus, matches, submissions, matchQueue,
                 pendingChallenges, issued, payouts, timers, feed, accepted>>

PayCheck(r) ==
  /\ Running(r, "pay", "pay_check")
  /\ LET q == reqs[r]
         v == PayVerdict(q.txHash, q.agent)
     IN IF getPaymentByTxHash(q.txHash) # {}
        THEN Finish(r, Error(400, "Transaction already processed"))
        ELSE IF v # "ok" THEN Finish(r, Error(400, v))
        ELSE Goto(r, "pay_record")
  /\ UNCHANGED <<now, checker, agents, payments, paymentStatus, matches, submissions, matchQueue,
                 pendingChallenges, issued, payouts, timers, feed, accepted>>

PayRecord(r) ==
  /\ Running(r, "pay", "pay_record")
  /\ LET q == reqs[r]
         tx == Chain[q.txHash]
     IN IF recordPaymentFails(q.txHash)
        THEN /\ Finish(r, Error(500, "Payment verification failed"))
             /\ UNCHANGED <<payments, paymentStatus>>
        ELSE /\ recordPayment(q.agent, q.txHash, tx.value, tx.from, q.matchId)
             /\ Finish(r, [status |-> 200, success |-> TRUE, tx_hash |-> q.txHash,
                           payment_id |-> PaymentRow(q.agent, q.txHash, tx.value, tx.from, q.matchId).id])
  /\ UNCHANGED <<now, checker, agents, matches, submissions, matchQueue, pendingChallenges, issued, payouts, timers, feed, accepted>>

\* ------------------------------------------------------------ POST /api/match/create
MIN_FEE_WEI == 10    \* parseEther('0.0001')

\* A throwing check ends in the inner catch: 400 "Payment verification failed".
CreateVerdict(txHash, agentId, entryFeeWei) ==
  IF ~OnChain(txHash) THEN "Payment verification failed"
  ELSE IF Chain[txHash].status # "success" THEN "Transaction not found or failed"
  ELSE IF Chain[txHash].to # ARENA_WALLET THEN "Transaction not sent to arena wallet"
  ELSE IF Chain[txHash].value < entryFeeWei THEN "Insufficient payment amount"
  ELSE IF agents[agentId].wallet = NULL THEN "Payment verification failed"
  ELSE IF Chain[txHash].from # agents[agentId].wallet THEN "Transaction sender does not match registered wallet"
  ELSE "ok"

\* A variant of CreateStart that also turns away the minimum fee itself.
CreateStartAboveMinimum(key, challengeType, entryFee, difficulty, txHash) ==
  /\ LET a == getAgentByApiKey(key)
         req == [kind |-> "create", pc |-> "create_insert", agent |-> a,
                 challengeType |-> challengeType, entryFeeWei |-> entryFee,
                 difficulty |-> difficulty, txHash |-> txHash,
                 matchId |-> NoMatch, resp |-> Pending]
     IN reqs' = Append(reqs,
          IF a = NULL THEN [req EXCEPT !.pc = "done", !.resp = Error(401, "Invalid API key")]
          ELSE IF challengeType = NULL \/ entryFee = 0
            THEN [req EXCEPT !.pc = "done", !.resp = Error(400, "challengeType and entryFee are required")]
          ELSE IF entryFee <= MIN_FEE_WEI
            THEN [req EXCEPT !.pc = "done", !.resp = Error(400, "Entry fee too low")]
          ELSE IF txHash # NoTx THEN [req EXCEPT !.pc = "create_check"]
          ELSE req)
  /\ UNCHANGED <<now, checker, agents, payments, paymentStatus, matches, submissions, matchQueue,
                 pendingChallenges, issued, payouts, timers, feed, accepted>>

\* entryFee = 0 stands for a body without entryFee, challengeType = NULL
\* for one without challengeType, difficulty = 0 for one without difficulty.
CreateStart(key, challengeType, entryFee, difficulty, txHash) ==
  /\ LET a == getAgentByApiKey(key)
         req == [kind |-> "create", pc |-> "create_insert", agent |-> a,
                 challengeType |-> challengeType, entryFeeWei |-> entryFee,
                 difficulty |-> difficulty, txHash |-> txHash,
                 matchId |-> NoMatch, resp |-> Pending]
     IN reqs' = Append(reqs,
          IF a = NULL THEN [req EXCEPT !.pc = "done", !.resp = Error(401, "Invalid API key")]
          ELSE IF challengeType = NULL \/ entryFee = 0
            THEN [req EXCEPT !.pc = "done", !.resp = Error(400, "challengeType and entryFee are required")]
          ELSE IF entryFee < MIN_FEE_WEI
            THEN [req EXCEPT !.pc = "done", !.resp = Error(400, "Entry fee too low")]
          ELSE IF txHash # NoTx THEN [req EXCEPT !.pc = "create_check"]
          ELSE req)
  /\ UNCHANGED <<now, checker, agents, payments, paymentStatus, matches, submissions, matchQueue,
                 pendingChallenges, issued, payouts, timers, feed, accepted>>

CreateCheck(r) ==
  /\ Running(r, "create", "create_check")
  /\ LET q == reqs[r]
         v == CreateVerdict(q.txHash, q.agent, q.entryFeeWei)
     IN IF getPaymentByTxHash(q.txHash) # {}
        THEN Finish(r, Error(400, "Transaction already processed"))
        ELSE IF v # "ok" THEN Finish(r, Error(400, v))
        ELSE Goto(r, "create_insert")
  /\ UNCHANGED <<now, checker, agents, payments, paymentStatus, matches, submissions, matchQueue,
                 pendingChallenges, issued, payouts, timers, feed, accepted>>

\* createCustomMatch: challenge_type is NOT NULL, so the INSERT of a 'random'
\* match (stored type null) throws and the handler answers 500.
CreatedEvent(q, id) ==
  [match_id |-> id, creator |-> agents[q.agent].name,
   challenge_type |-> q.challengeType, entry_fee_wei |-> q.entryFeeWei]

CreatedResponse(q, id, message) ==
  [status |-> 200, success |-> TRUE, match_id |-> id,
   entry_fee_wei |-> q.entryFeeWei, challenge_type |-> q.challengeType,
   difficulty |-> IF q.difficulty = 0 THEN 3 ELSE q.difficulty,
   message |-> message]

CreateInsert(r) ==
  /\ Running(r, "create", "create_insert")
  /\ LET q == reqs[r]
         id == MatchId(Cardinality(DOMAIN matches) + 1)
         storedType == IF q.challengeType = "random" THEN NULL ELSE q.challengeType
     IN IF storedType = NULL
        THEN /\ Finish(r, Error(500, "Failed to create match"))
             /\ UNCHANGED <<matches, feed>>
        ELSE \E challengeSeed \in Seeds :
             /\ matches' = (id :> CustomMatchRow(id, q.agent, storedType, q.entryFeeWei, challengeSeed))
                           @@ matches
             /\ IF q.txHash # NoTx
                THEN /\ reqs' = [reqs EXCEPT ![r] = [@ EXCEPT !.pc = "create_record", !.matchId = id]]
                     /\ UNCHANGED feed
                ELSE /\ broadcastSSE("match_created", CreatedEvent(q, id))
                     /\ reqs' = [reqs EXCEPT ![r] = [@ EXCEPT !.pc = "done", !.matchId = id,
                          !.resp = CreatedResponse(q, id, "Custom match created! Pay entry fee to finalize.")]]
  /\ UNCHANGED <<now, checker, agents, payments, paymentStatus, submissions, matchQueue,
                 pendingChallenges, issued, payouts, timers, accepted>>

CreateRecord(r) ==
  /\ Running(r, "create", "create_record")
  /\ LET q == reqs[r]
         tx == Chain[q.txHash]
     IN IF recordPaymentFails(q.txHash)
        THEN /\ Finish(r, Error(500, "Failed to create match"))
             /\ UNCHANGED <<payments, paymentStatus, accepted, feed>>
        ELSE /\ recordPayment(q.agent, q.txHash, tx.value, tx.from, q.matchId)
             /\ accepted' = accepted \cup {<<q.txHash, q.matchId>>}
             /\ broadcastSSE("match_created", CreatedEvent(q, q.matchId))
             /\ Finish(r, CreatedResponse(q, q.matchId, "Custom match created and payment verified!"))
  /\ UNCHANGED <<now, checker, agents, matches, submissions, matchQueue, pendingChallenges, issued, payouts, timers>>

\* ------------------------------------------------------------ POST /api/match/:id/join
\* A throwing check (hash unknown to the chain, agent without wallet) ends
\* in the handler's catch: 500 "Failed to join match".
JoinVerdict(txHash, agentId, entryFeeWei) ==
  IF ~OnChain(txHash) THEN "Failed to join match"
  ELSE IF Chain[txHash].status # "success" THEN "Transaction not found or failed"
  ELSE IF Chain[txHash].to # ARENA_WALLET THEN "Transaction not sent to arena wallet"
  ELSE IF Chain[txHash].value < entryFeeWei THEN "Insufficient payment amount"
  ELSE IF agents[agentId].wallet = NULL THEN "Failed to join match"
  ELSE IF Chain[txHash].from # agents[agentId].wallet THEN "Transaction sender does not match registered wallet"
  ELSE "ok"

\* A variant of JoinChallenge that generates from a seed of its own instead
\* of the stored one.
JoinChallengeOwnSeed(match) ==
  generateChallenge(match.challenge_type, 3, match.challenge_seed + 1)

\* "Generate challenge using the stored seed": type and seed of the match
\* row, difficulty 3.
JoinChallenge(match) == generateChallenge(match.challenge_type, 3, match.challenge_seed)

JoinStart(key, matchId, txHash) ==
  /\ LET a == getAgentByApiKey(key)
         req == [kind |-> "join", pc |-> "join_read", agent |-> a, matchId |-> matchId,
                 txHash |-> txHash, match |-> EmptyObject, challenge |-> EmptyObject,
                 resp |-> Pending]
     IN reqs' = Append(reqs,
          IF a = NULL THEN [req EXCEPT !.pc = "done", !.resp = Error(401, "Invalid API key")]
          ELSE IF txHash = NoTx
            THEN [req EXCEPT !.pc = "done", !.resp = Error(400, "txHash is required for payment verification")]
          ELSE req)
  /\ UNCHANGED <<now, checker, agents, payments, paymentStatus, matches, submissions, matchQueue,
                 pendingChallenges, issued, payouts, timers, feed, accepted>>

\* const match = await db.getMatch(matchId) and the checks on it
JoinRead(r) ==
  /\ Running(r, "join", "join_read")
  /\ LET q == reqs[r]
     IN IF q.matchId \notin DOMAIN matches THEN Finish(r, Error(404, "Match not found"))
        ELSE IF matches[q.matchId].status # "open"
          THEN Finish(r, Error(400, "Match is not open for joining"))
        ELSE IF matches[q.matchId].creator_id = q.agent
          THEN Finish(r, Error(400, "Cannot join your own match"))
        ELSE reqs' = [reqs EXCEPT ![r] = [@ EXCEPT !.pc = "join_check", !.match = matches[q.matchId]]]
  /\ UNCHANGED <<now, checker, agents, payments, paymentStatus, matches, submissions, matchQueue,
                 pendingChallenges, issued, payouts, timers, feed, accepted>>

\* getPaymentByTxHash, the chain checks, and the generation of the challenge
JoinCheck(r) ==
  /\ Running(r, "join", "join_check")
  /\ LET q == reqs[r]
         v == JoinVerdict(q.txHash, q.agent, q.match.entry_fee_wei)
     IN IF getPaymentByTxHash(q.txHash) # {}
        THEN Finish(r, Error(400, "Transaction already processed"))
        ELSE IF v = "Failed to join match" THEN Finish(r, Error(500, v))
        ELSE IF v # "ok" THEN Finish(r, Error(400, v))
        ELSE reqs' = [reqs EXCEPT ![r] = [@ EXCEPT !.pc = "join_update",
                                                    !.challenge = JoinChallenge(q.match)]]
  /\ UNCHANGED <<now, checker, agents, payments, paymentStatus, matches, submissions, matchQueue,
                 pendingChallenges, issued, payouts, timers, feed, accepted>>

\* await db.joinCustomMatch(...): the UPDATE has no condition on status
JoinUpdate(r) ==
  /\ Running(r, "join", "join_update")
  /\ LET q == reqs[r]
     IN /\ joinCustomMatch(q.matchId, q.agent, q.challenge, q.challenge.timeLimit)
        /\ accepted' = accepted \cup {<<q.txHash, q.matchId>>}
  /\ Goto(r, "join_record")
  /\ UNCHANGED <<now, checker, agents, payments, paymentStatus, submissions, matchQueue,
                 pendingChallenges, issued, payouts, timers, feed>>

JoinRecord(r) ==
  /\ Running(r, "join", "join_record")
  /\ LET q == reqs[r]
         tx == Chain[q.txHash]
     IN IF recordPaymentFails(q.txHash)
        THEN /\ Finish(r, Error(500, "Failed to join match"))
             /\ UNCHANGED <<payments, paymentStatus, feed>>
        ELSE /\ recordPayment(q.agent, q.txHash, tx.value, tx.from, q.matchId)
             /\ broadcastSSE("match_started",
                  [match_id |-> q.matchId, creator |-> agents[q.match.creator_id].name,
                   opponent |-> agents[q.agent].name, challenge_type |-> q.challenge.type,
                   entry_fee_wei |-> q.match.entry_fee_wei])
             /\ Finish(r, [status |-> 200, success |-> TRUE, match_id |-> q.matchId,
                           message |-> "Successfully joined match!",
                           challenge |-> [type |-> q.challenge.type, title |-> q.challenge.title,
                                          description |-> q.challenge.description,
                                          time_limit |-> q.challenge.timeLimit]])
  /\ UNCHANGED <<now, checker, agents, matches, submissions, matchQueue, pendingChallenges, issued, payouts, timers, accepted>>

\* ------------------------------------------------------------ public GET routes
\* "SECURITY: Strip answers/solutions from challenge data before sending":
\* delete answer, solution, plaintext, key; test cases keep their input only.
StripAnswers(cd) ==
  [f \in DOMAIN cd \ {"answer", "solution", "plaintext", "key"} |->
     IF f = "testCases"
     THEN [i \in DOMAIN cd[f] |-> [input |-> cd[f][i].input]]
     ELSE cd[f]]

getMatchSubmissions(matchId) == SelectSeq(submissions, LAMBDA s : s.match_id = matchId)

AgentName(id) == IF id \in DOMAIN agents THEN agents[id].name ELSE NULL
AgentElo(id) == IF id \in DOMAIN agents THEN agents[id].elo ELSE NULL

\* GET /api/match/:id: res.json({...match, challenge_data: safeChallenge, ...})
SafeSubmission(sub, isCompleted, requester) ==
  LET shown == [agent_id |-> sub.agent_id, agent_name |-> AgentName(sub.agent_id),
                correct |-> sub.correct, score |-> sub.score]
  IN IF isCompleted \/ (requester # NULL /\ sub.agent_id = requester)
     THEN shown @@ [solution |-> sub.solution]
     ELSE shown

MatchDetails(match, requester) ==
  LET subs == getMatchSubmissions(match.id)
      extra == [agent1_name |-> AgentName(match.agent1_id), agent1_elo |-> AgentElo(match.agent1_id),
                agent2_name |-> AgentName(match.agent2_id), agent2_elo |-> AgentElo(match.agent2_id),
                submissions |-> [i \in DOMAIN subs |->
                                   SafeSubmission(subs[i], match.status = "completed", requester)]]
  IN [match EXCEPT !.challenge_data = StripAnswers(match.challenge_data)] @@ extra

GetMatch(key, id) ==
  /\ reqs' = Append(reqs,
       [kind |-> "get_match", pc |-> "done", id |-> id,
        resp |-> IF id \in DOMAIN matches
                 THEN [status |-> 200, body |-> MatchDetails(matches[id], getAgentByApiKey(key))]
                 ELSE Error(404, "Match not found")])
  /\ UNCHANGED <<now, checker, agents, payments, paymentStatus, matches, submissions, matchQueue,
                 pendingChallenges, issued, payouts, timers, feed, accepted>>

\* GET /api/matches/active: getActiveMatches, answers stripped, submissions
\* without their solutions.
ActiveEntry(match) ==
  LET subs == getMatchSubmissions(match.id)
  IN [match EXCEPT !.challenge_data = StripAnswers(match.challenge_data)] @@
     [agent1_name |-> AgentName(match.agent1_id), agent2_name |-> AgentName(match.agent2_id),
      submissions |-> [i \in DOMAIN subs |->
                         [agent_id |-> subs[i].agent_id, agent_name |-> AgentName(subs[i].agent_id),
                          correct |-> subs[i].correct, score |-> subs[i].score]]]

getActiveMatches == {matches[i] : i \in {j \in DOMAIN matches : matches[j].status \in {"waiting", "active"}}}

GetActiveMatches ==
  /\ reqs' = Append(reqs,
       [kind |-> "get_active", pc |-> "done",
        resp |-> [status |-> 200, matches |-> {ActiveEntry(m) : m \in getActiveMatches}]])
  /\ UNCHANGED <<now, checker, agents, payments, paymentStatus, matches, submissions, matchQueue,
                 pendingChallenges, issued, payouts, timers, feed, accepted>>

\* GET /api/agent/:id (and /battles): the agent's matches, answers stripped
getAgentMatches(agentId) ==
  {matches[i] : i \in {j \in DOMAIN matches :
      agentId \in {matches[j].agent1_id, matches[j].agent2_id,
                   matches[j].creator_id, matches[j].opponent_id}}}

SafeMatch(m) ==
  [m EXCEPT !.challenge_data = StripAnswers(m.challenge_data)] @@
  [agent1_name |-> AgentName(m.agent1_id), agent2_name |-> AgentName(m.agent2_id)]

GetAgent(id) ==
  /\ reqs' = Append(reqs,
       [kind |-> "get_agent", pc |-> "done", id |-> id,
        resp |-> IF id \in DOMAIN agents
                 THEN [status |-> 200,
                       agent |-> [f \in DOMAIN agents[id] \ {"api_key"} |-> agents[id][f]],
                       recent_matches |-> {SafeMatch(m) : m \in getAgentMatches(id)}]
                 ELSE Error(404, "Agent not found")])
  /\ UNCHANGED <<now, checker, agents, payments, paymentStatus, matches, submissions, matchQueue,
                 pendingChallenges, issued, payouts, timers, feed, accepted>>

\* ------------------------------------------------------------ POST /api/match/queue
\* difficulty = 0 stands for a body without difficulty:
\* difficulty || Math.floor(Math.random() * 3) + 1
QueueStart(key, challenge_type, difficulty) ==
  /\ LET a == getAgentByApiKey(key)
         req == [kind |-> "queue", pc |-> "queue_afford", agent |-> a,
                 challenge_type |-> challenge_type, difficulty |-> difficulty,
                 pairing |-> EmptyObject, resp |-> Pending]
     IN reqs' = Append(reqs,
          IF a = NULL THEN [req EXCEPT !.pc = "done", !.resp = Error(401, "Invalid API key")]
          ELSE req)
  /\ UNCHANGED <<now, checker, agents, payments, paymentStatus, matches, submissions, matchQueue,
                 pendingChallenges, issued, payouts, timers, feed, accepted>>

\* const canAfford = await db.canAgentAffordMatch(req.agent.id, quickMatchFeeWei)
QueueAfford(r) ==
  /\ Running(r, "queue", "queue_afford")
  /\ IF canAgentAffordMatch(reqs[r].agent, ENTRY_FEE_WEI)
     THEN Goto(r, "queue_push")
     ELSE Finish(r, Error(402, "Insufficient payment balance"))
  /\ UNCHANGED <<now, checker, agents, payments, paymentStatus, matches, submissions, matchQueue,
                 pendingChallenges, issued, payouts, timers, feed, accepted>>

\* tryMatchmaking up to its INSERT: the two entries it takes off the queue
\* and the quick match it is about to store.
QuickPot == PotWei(ENTRY_FEE_WEI)
QuickArenaCut == ArenaCutWei(QuickPot)
QuickWinnerPayout == WinnerPayoutWei(QuickPot, QuickArenaCut)

\* A variant of Shifted that takes the first entry only and pairs it with
\* the last one, leaving the second in the queue.
ShiftedOnce(queue) == [agent1Entry |-> queue[1], agent2Entry |-> queue[Len(queue)],
                       rest |-> SubSeq(queue, 2, Len(queue))]

\* A variant of Shifted that reads the first two entries and leaves them in
\* the queue.
ShiftedPeek(queue) == [agent1Entry |-> queue[1], agent2Entry |-> queue[2],
                       rest |-> queue]

Shifted(queue) == [agent1Entry |-> queue[1], agent2Entry |-> queue[2],
                   rest |-> SubSeq(queue, 3, Len(queue))]

QuickChallengeType(agent1Entry, agent2Entry) ==
  IF agent1Entry.challenge_type # NULL THEN agent1Entry.challenge_type
  ELSE agent2Entry.challenge_type

Max(a, b) == IF a > b THEN a ELSE b

QuickMatchRow(id, agent1Entry, agent2Entry, challenge, challengeSeed) ==
  [id |-> id, agent1_id |-> agent1Entry.agent, agent2_id |-> agent2Entry.agent,
   challenge_type |-> challenge.type, challenge_data |-> challenge,
   status |-> "active", winner_id |-> NULL, started_at |-> now,
   time_limit |-> challenge.timeLimit, entry_fee_wei |-> ENTRY_FEE_WEI,
   creator_id |-> agent1Entry.agent, opponent_id |-> agent2Entry.agent,
   pot_wei |-> QuickPot, arena_cut_wei |-> QuickArenaCut,
   winner_payout_wei |-> QuickWinnerPayout,
   challenge_seed |-> challengeSeed, is_practice |-> 0,
   elo_change_agent1 |-> 0, elo_change_agent2 |-> 0]

\* The synchronous stretch: already-in-queue check, push, tryMatchmaking
\* until it awaits the INSERT.
QueuePush(r) ==
  /\ Running(r, "queue", "queue_push")
  /\ LET q == reqs[r]
     IN IF \E i \in DOMAIN matchQueue : matchQueue[i].agent = q.agent
        THEN /\ Finish(r, Error(400, "Already in queue"))
             /\ UNCHANGED matchQueue
        ELSE \E d \in (IF q.difficulty = 0 THEN 1..3 ELSE {q.difficulty}) :
             LET queueEntry == [agent |-> q.agent, challenge_type |-> q.challenge_type,
                                difficulty |-> d]
                 pushed == Append(matchQueue, queueEntry)
             IN IF Len(pushed) < 2
                THEN /\ matchQueue' = pushed
                     /\ Finish(r, [status |-> 200, success |-> TRUE,
                                   message |-> "Added to queue, waiting for opponent...",
                                   queue_position |-> Len(pushed)])
                ELSE \E challengeSeed \in Seeds :
                     LET sh == Shifted(pushed)
                         challenge == generateChallenge(
                                        QuickChallengeType(sh.agent1Entry, sh.agent2Entry),
                                        Max(sh.agent1Entry.difficulty, sh.agent2Entry.difficulty),
                                        challengeSeed)
                     IN /\ matchQueue' = sh.rest
                        /\ reqs' = [reqs EXCEPT ![r] = [@ EXCEPT !.pc = "queue_insert",
                             !.pairing = [agent1Entry |-> sh.agent1Entry,
                                          agent2Entry |-> sh.agent2Entry,
                                          challenge |-> challenge,
                                          challengeSeed |-> challengeSeed]]]
  /\ UNCHANGED <<now, checker, agents, payments, paymentStatus, matches, submissions,
                 pendingChallenges, issued, payouts, timers, feed, accepted>>

\* const finalMatchId = matchId.lastID ? matchId.lastID.toString() : crypto.randomUUID()
\* where matchId is the statement of the INSERT: lastID is the rowid of the
\* new row, while the row's id column holds the UUID passed to the INSERT.
FinalMatchId(lastID) == RowIdStr(lastID)

QueueInsert(r) ==
  /\ Running(r, "queue", "queue_insert")
  /\ LET q == reqs[r]
         lastID == Cardinality(DOMAIN matches) + 1
         id == MatchId(lastID)
         finalMatchId == FinalMatchId(lastID)
     IN /\ matches' = (id :> QuickMatchRow(id, q.pairing.agent1Entry, q.pairing.agent2Entry,
                                           q.pairing.challenge, q.pairing.challengeSeed))
                      @@ matches
        /\ broadcastSSE("match_started",
             [match_id |-> finalMatchId,
              agent1 |-> agents[q.pairing.agent1Entry.agent].name,
              agent2 |-> agents[q.pairing.agent2Entry.agent].name,
              challenge_type |-> q.pairing.challenge.type,
              entry_fee_wei |-> ENTRY_FEE_WEI])
        /\ Finish(r, [status |-> 200, success |-> TRUE, match_id |-> finalMatchId,
                      message |-> "Match found!"])
  /\ UNCHANGED <<now, checker, agents, payments, paymentStatus, submissions, matchQueue,
                 pendingChallenges, issued, payouts, timers, accepted>>

\* ------------------------------------------------------------ validation
\* challengeGen.validateSolution (challenges.js, specification 4.2-4.5).
\* A submitted solution is described by what decides its verdict: the text
\* of a cipher answer, the problem a piece of code computes and its length,
\* the leading zero digits of a string's SHA256.
NoSolution == [none |-> TRUE]

\* A piece of code may never return on some inputs: it carries the set of
\* those inputs.
Loops(solution, input) ==
  "loops" \in DOMAIN solution /\ input \in solution.loops

\* A variant of SandboxRun whose isolate is never torn down.
SandboxRunUnbounded(solution, input) ==
  IF Loops(solution, input) THEN "running" ELSE "returned"

\* 4.3 / SKILL.md "Limits": one run of the code on one input in its own
\* isolate, torn down at the 5 second timeout when the code has not
\* returned by then.
SandboxRun(solution, input) ==
  IF Loops(solution, input) THEN "timeout" ELSE "returned"

\* A test case passes when the run returned and the returned value equals
\* the expected output; a run that timed out is a failed case.
CodePasses(cd, solution) ==
  \A i \in DOMAIN cd.testCases :
     /\ SandboxRun(solution, cd.testCases[i].input) = "returned"
     /\ ReferenceSolve(solution.computes, cd.testCases[i].input) = cd.testCases[i].expected

\* 4.3 / SKILL.md "Restrictions": the capability tokens whose presence
\* rejects a code submission.  A piece of code carries the set of the
\* tokens it contains.
Denylist ==
  {"require", "import", "process", "eval", "__proto__", "Proxy", "Reflect",
   "globalThis", "child_process", "XMLHttpRequest", "WebSocket"}

\* A variant of Denylisted that knows the module-loading tokens only.
DenylistedLoadersOnly(solution) ==
  "tokens" \in DOMAIN solution /\ solution.tokens \cap {"require", "import"} # {}

\* The static filter that runs before the sandbox.
Denylisted(solution) ==
  "tokens" \in DOMAIN solution /\ solution.tokens \cap Denylist # {}

\* 4.4: the test cases the judge executes the submission on: none for a
\* submission the filter rejects, otherwise all of them in their order.
ExecutedCases(cd, solution) ==
  IF cd.type # "code_golf" \/ "computes" \notin DOMAIN solution \/ Denylisted(solution)
  THEN <<>>
  ELSE [i \in DOMAIN cd.testCases |-> cd.testCases[i].input]

\* The judge hands back its result once no run of the submission is still
\* going on.
JudgeReturns(cd, solution) ==
  \A i \in DOMAIN ExecutedCases(cd, solution) :
     SandboxRun(solution, ExecutedCases(cd, solution)[i]) # "running"

\* A variant of LeadingZeros that counts every zero digit of the digest.
RECURSIVE LeadingZerosAnywhere(_)
LeadingZerosAnywhere(digest) ==
  IF digest = <<>> THEN 0
  ELSE (IF Head(digest) = 0 THEN 1 ELSE 0) + LeadingZerosAnywhere(Tail(digest))

\* 4.5: the zero digits the hex digest of the submitted string begins with.
\* A submitted string is described by the hex digits of its SHA256.
RECURSIVE LeadingZeros(_)
LeadingZeros(digest) ==
  IF digest = <<>> \/ Head(digest) # 0 THEN 0 ELSE 1 + LeadingZeros(Tail(digest))

validateSolution(cd, solution) ==
  CASE cd.type = "cipher_break" ->
         IF "text" \in DOMAIN solution /\ solution.text = cd.answer
         THEN [valid |-> TRUE, score |-> 100] ELSE [valid |-> FALSE, score |-> 0]
    [] cd.type = "code_golf" ->
         IF "computes" \in DOMAIN solution /\ ~Denylisted(solution) /\ CodePasses(cd, solution)
         THEN [valid |-> TRUE, score |-> 100 + Max(10, 200 - solution.chars)]
         ELSE [valid |-> FALSE, score |-> 0]
    [] OTHER ->
         IF "digest" \in DOMAIN solution /\ LeadingZeros(solution.digest) >= cd.zeros
         THEN [valid |-> TRUE, score |-> 100] ELSE [valid |-> FALSE, score |-> 0]

\* ------------------------------------------------------------ completeMatch
\* updateELO: K = 32, expected score 1 / (1 + 10^((elo2 - elo1) / 400)),
\* new rating Math.round(elo + K * (actual - expected)).  EloSteps[k] is the
\* least rating difference d = opponent - own at which Math.round(32 * (1 -
\* expected)) reaches k, so a win moves a rating by EloGain(d), a draw by
\* EloGain(d) - 16 and a loss by EloGain(d) - 32.
EloSteps == <<-719, -523, -428, -364, -314, -273, -237, -205, -176, -149, -124,
              -100, -77, -54, -32, -10, 11, 33, 55, 78, 101, 125, 150, 177, 206,
              238, 274, 315, 365, 429, 524, 720>>

EloGain(d) == Cardinality({k \in DOMAIN EloSteps : d >= EloSteps[k]})

\* actual score doubled: 2 win, 1 draw, 0 loss
EloChange(own, opponent, actual2) == EloGain(opponent - own) - 32 + 16 * actual2

\* A variant of updateELO without the practice check.
updateELOAlways(rows, match, winnerId) ==
  LET      a1 == match.agent1_id
           a2 == match.agent2_id
           s1 == IF winnerId = NULL THEN 1 ELSE IF winnerId = a1 THEN 2 ELSE 0
           newElo1 == rows[a1].elo + EloChange(rows[a1].elo, rows[a2].elo, s1)
           newElo2 == rows[a2].elo + EloChange(rows[a2].elo, rows[a1].elo, 2 - s1)
           first == [rows EXCEPT ![a1] =
                       [@ EXCEPT !.elo = newElo1,
                                 !.draws = IF s1 = 1 THEN @ + 1 ELSE @,
                                 !.wins = IF s1 = 2 THEN @ + 1 ELSE @,
                                 !.losses = IF s1 = 0 THEN @ + 1 ELSE @]]
       IN [first EXCEPT ![a2] =
                       [@ EXCEPT !.elo = newElo2,
                                 !.draws = IF s1 = 1 THEN @ + 1 ELSE @,
                                 !.wins = IF s1 = 0 THEN @ + 1 ELSE @,
                                 !.losses = IF s1 = 2 THEN @ + 1 ELSE @]]

\* A variant of updateELO whose draw branch counts the draw for agent1 only.
updateELODrawOnce(rows, match, winnerId) ==
  IF match.is_practice # 0 THEN rows
  ELSE LET a1 == match.agent1_id
           a2 == match.agent2_id
           s1 == IF winnerId = NULL THEN 1 ELSE IF winnerId = a1 THEN 2 ELSE 0
           newElo1 == rows[a1].elo + EloChange(rows[a1].elo, rows[a2].elo, s1)
           newElo2 == rows[a2].elo + EloChange(rows[a2].elo, rows[a1].elo, 2 - s1)
           first == [rows EXCEPT ![a1] =
                       [@ EXCEPT !.elo = newElo1,
                                 !.draws = IF s1 = 1 THEN @ + 1 ELSE @,
                                 !.wins = IF s1 = 2 THEN @ + 1 ELSE @,
                                 !.losses = IF s1 = 0 THEN @ + 1 ELSE @]]
       IN [first EXCEPT ![a2] =
                       [@ EXCEPT !.elo = newElo2,
                                 !.draws = @,
                                 !.wins = IF s1 = 0 THEN @ + 1 ELSE @,
                                 !.losses = IF s1 = 2 THEN @ + 1 ELSE @]]

updateELO(rows, match, winnerId) ==
  IF match.is_practice # 0 THEN rows
  ELSE LET a1 == match.agent1_id
           a2 == match.agent2_id
           s1 == IF winnerId = NULL THEN 1 ELSE IF winnerId = a1 THEN 2 ELSE 0
           newElo1 == rows[a1].elo + EloChange(rows[a1].elo, rows[a2].elo, s1)
           newElo2 == rows[a2].elo + EloChange(rows[a2].elo, rows[a1].elo, 2 - s1)
           first == [rows EXCEPT ![a1] =
                       [@ EXCEPT !.elo = newElo1,
                                 !.draws = IF s1 = 1 THEN @ + 1 ELSE @,
                                 !.wins = IF s1 = 2 THEN @ + 1 ELSE @,
                                 !.losses = IF s1 = 0 THEN @ + 1 ELSE @]]
       IN [first EXCEPT ![a2] =
                       [@ EXCEPT !.elo = newElo2,
                                 !.draws = IF s1 = 1 THEN @ + 1 ELSE @,
                                 !.wins = IF s1 = 0 THEN @ + 1 ELSE @,
                                 !.losses = IF s1 = 2 THEN @ + 1 ELSE @]]

EloChanges(rows, match, winnerId) ==
  IF match.is_practice # 0 THEN <<match.elo_change_agent1, match.elo_change_agent2>>
  ELSE LET s1 == IF winnerId = NULL THEN 1 ELSE IF winnerId = match.agent1_id THEN 2 ELSE 0
       IN <<EloChange(rows[match.agent1_id].elo, rows[match.agent2_id].elo, s1),
            EloChange(rows[match.agent2_id].elo, rows[match.agent1_id].elo, 2 - s1)>>

\* A variant of completeMatch whose UPDATE sets the status and not the winner.
completeMatchStatusOnly(matchId, winnerId) ==
  LET match == matches[matchId]
      ch == EloChanges(agents, match, winnerId)
  IN /\ matches' = [matches EXCEPT ![matchId] =
          [@ EXCEPT !.status = "completed",
                    !.elo_change_agent1 = ch[1], !.elo_change_agent2 = ch[2]]]
     /\ agents' = updateELO(agents, match, winnerId)

\* completeMatch: UPDATE status and winner (whatever the status was), then
\* updateELO; handleMatchPayout only logs.
completeMatch(matchId, winnerId) ==
  LET match == matches[matchId]
      ch == EloChanges(agents, match, winnerId)
  IN /\ matches' = [matches EXCEPT ![matchId] =
          [@ EXCEPT !.status = "completed", !.winner_id = winnerId,
                    !.elo_change_agent1 = ch[1], !.elo_change_agent2 = ch[2]]]
     /\ agents' = updateELO(agents, match, winnerId)

sendPayout(matchId, winnerWallet, payoutWei) ==
  payouts' = Append(payouts, [match_id |-> matchId, to |-> winnerWallet, value |-> payoutWei])

\* ------------------------------------------------------------ POST /api/match/:id/submit
SubmitStart(key, matchId, solution) ==
  /\ LET a == getAgentByApiKey(key)
         req == [kind |-> "submit", pc |-> "submit_read", agent |-> a, matchId |-> matchId,
                 solution |-> solution, match |-> EmptyObject,
                 validation |-> EmptyObject, submissionId |-> <<"sub", 0>>,
                 resp |-> Pending]
     IN reqs' = Append(reqs,
          IF a = NULL THEN [req EXCEPT !.pc = "done", !.resp = Error(401, "Invalid API key")]
          ELSE IF solution = NoSolution
            THEN [req EXCEPT !.pc = "done", !.resp = Error(400, "Solution is required")]
          ELSE req)
  /\ UNCHANGED <<now, checker, agents, payments, paymentStatus, matches, submissions, matchQueue,
                 pendingChallenges, issued, payouts, timers, feed, accepted>>

\* getMatch and the checks on the match
SubmitRead(r) ==
  /\ Running(r, "submit", "submit_read")
  /\ LET q == reqs[r]
     IN IF q.matchId \notin DOMAIN matches THEN Finish(r, Error(404, "Match not found"))
        ELSE IF matches[q.matchId].status # "active" THEN Finish(r, Error(400, "Match is not active"))
        ELSE IF q.agent \notin {matches[q.matchId].agent1_id, matches[q.matchId].agent2_id}
          THEN Finish(r, Error(403, "Not authorized for this match"))
        ELSE reqs' = [reqs EXCEPT ![r] = [@ EXCEPT !.pc = "submit_existing",
                                                    !.match = matches[q.matchId]]]
  /\ UNCHANGED <<now, checker, agents, payments, paymentStatus, matches, submissions, matchQueue,
                 pendingChallenges, issued, payouts, timers, feed, accepted>>

\* getMatchSubmissions, the already-submitted check, validateSolution
SubmitExisting(r) ==
  /\ Running(r, "submit", "submit_existing")
  /\ LET q == reqs[r]
         existingSubmissions == getMatchSubmissions(q.matchId)
     IN IF \E i \in DOMAIN existingSubmissions : existingSubmissions[i].agent_id = q.agent
        THEN Finish(r, Error(400, "Already submitted solution"))
        ELSE /\ JudgeReturns(q.match.challenge_data, q.solution)
             /\ reqs' = [reqs EXCEPT ![r] = [@ EXCEPT !.pc = "submit_insert",
                          !.validation = validateSolution(q.match.challenge_data, q.solution)]]
  /\ UNCHANGED <<now, checker, agents, payments, paymentStatus, matches, submissions, matchQueue,
                 pendingChallenges, issued, payouts, timers, feed, accepted>>

SubmittedEvent(q) ==
  [event |-> "solution_submitted",
   data |-> [match_id |-> q.matchId, agent |-> agents[q.agent].name,
             correct |-> q.validation.valid, score |-> q.validation.score]]

SubmitResponse(q, submissionId) ==
  [status |-> 200, success |-> TRUE, validation |-> q.validation, submission_id |-> submissionId]

\* db.submitSolution; a wrong solution ends the handler here (in a practice
\* match after arming the 5 second timer).
SubmitInsert(r) ==
  /\ Running(r, "submit", "submit_insert")
  /\ LET q == reqs[r]
         id == <<"sub", Len(submissions) + 1>>
     IN /\ submissions' = Append(submissions,
              [id |-> id, match_id |-> q.matchId, agent_id |-> q.agent,
               solution |-> q.solution, correct |-> FALSE, score |-> 0])
        /\ IF q.validation.valid
           THEN /\ reqs' = [reqs EXCEPT ![r] = [@ EXCEPT !.pc = "submit_mark", !.submissionId = id]]
                /\ UNCHANGED <<timers, feed>>
           ELSE /\ timers' = IF q.match.is_practice # 0 THEN timers \cup {q.matchId} ELSE timers
                /\ feed' = feed \cup {SubmittedEvent(q)}
                /\ reqs' = [reqs EXCEPT ![r] = [@ EXCEPT !.pc = "done", !.submissionId = id,
                                                         !.resp = SubmitResponse(q, id)]]
  /\ UNCHANGED <<now, checker, agents, payments, paymentStatus, matches, matchQueue,
                 pendingChallenges, issued, payouts, accepted>>

\* A variant of markSubmissionCorrect that stores the default score
\* (score = 100) for every correct submission.
markSubmissionCorrectDefault(submissionId, score) ==
  submissions' = [i \in DOMAIN submissions |->
                    IF submissions[i].id = submissionId
                    THEN [submissions[i] EXCEPT !.correct = TRUE, !.score = 100]
                    ELSE submissions[i]]

\* A variant of markSubmissionCorrect whose UPDATE matches no row.
markSubmissionCorrectNoRow(submissionId, score) ==
  submissions' = submissions

markSubmissionCorrect(submissionId, score) ==
  submissions' = [i \in DOMAIN submissions |->
                    IF submissions[i].id = submissionId
                    THEN [submissions[i] EXCEPT !.correct = TRUE, !.score = score]
                    ELSE submissions[i]]

SubmitMark(r) ==
  /\ Running(r, "submit", "submit_mark")
  /\ markSubmissionCorrect(reqs[r].submissionId, reqs[r].validation.score)
  /\ Goto(r, IF reqs[r].match.is_practice # 0 THEN "submit_complete" ELSE "submit_count")
  /\ UNCHANGED <<now, checker, agents, payments, paymentStatus, matches, matchQueue,
                 pendingChallenges, issued, payouts, timers, feed, accepted>>

\* "Check if this is the first correct solution"
CorrectSubmissions(matchId) == SelectSeq(getMatchSubmissions(matchId), LAMBDA s : s.correct)

IsFirstCorrect(correctSubmissions) == Len(correctSubmissions) = 1

SubmitCount(r) ==
  /\ Running(r, "submit", "submit_count")
  /\ LET q == reqs[r]
     IN IF IsFirstCorrect(CorrectSubmissions(q.matchId))
        THEN /\ Goto(r, "submit_complete")
             /\ UNCHANGED feed
        ELSE /\ feed' = feed \cup {SubmittedEvent(q)}
             /\ Finish(r, SubmitResponse(q, q.submissionId))
  /\ UNCHANGED <<now, checker, agents, payments, paymentStatus, matches, submissions, matchQueue,
                 pendingChallenges, issued, payouts, timers, accepted>>

SubmitComplete(r) ==
  /\ Running(r, "submit", "submit_complete")
  /\ LET q == reqs[r]
     IN /\ completeMatch(q.matchId, q.agent)
        /\ IF q.match.is_practice # 0
           THEN /\ feed' = feed \cup
                     {[event |-> "practice_match_completed",
                       data |-> [match_id |-> q.matchId, winner |-> agents[q.agent].name,
                                 result |-> "agent_won"]],
                      SubmittedEvent(q)}
                /\ Finish(r, SubmitResponse(q, q.submissionId))
           ELSE /\ Goto(r, "submit_payout")
                /\ UNCHANGED feed
  /\ UNCHANGED <<now, checker, payments, paymentStatus, submissions, matchQueue,
                 pendingChallenges, issued, payouts, timers, accepted>>

\* const completedMatch = await db.getMatch(matchId); sendPayout is not awaited
SubmitPayout(r) ==
  /\ Running(r, "submit", "submit_payout")
  /\ LET q == reqs[r]
         completedMatch == matches[q.matchId]
     IN /\ IF agents[q.agent].wallet # NULL
           THEN sendPayout(q.matchId, agents[q.agent].wallet, completedMatch.winner_payout_wei)
           ELSE UNCHANGED payouts
        /\ feed' = feed \cup
             {[event |-> "match_completed",
               data |-> [match_id |-> q.matchId, winner |-> agents[q.agent].name,
                         solution_type |-> q.match.challenge_data.type]],
              SubmittedEvent(q)}
        /\ Finish(r, SubmitResponse(q, q.submissionId))
  /\ UNCHANGED <<now, checker, agents, payments, paymentStatus, matches, submissions, matchQueue,
                 pendingChallenges, issued, timers, accepted>>

\* A variant of PracticeTimer whose callback ends in its catch before
\* completeMatch.
PracticeTimerCaught(matchId) ==
  /\ matchId \in timers
  /\ timers' = timers \ {matchId}
  /\ UNCHANGED <<now, checker, agents, matches, feed, payments, paymentStatus, submissions,
                 matchQueue, pendingChallenges, issued, reqs, payouts, accepted>>

\* setTimeout(..., 5000) of a wrong practice submission: PracticeBot wins
PracticeTimer(matchId) ==
  /\ matchId \in timers
  /\ timers' = timers \ {matchId}
  /\ completeMatch(matchId, PracticeBotId)
  /\ feed' = feed \cup {[event |-> "practice_match_completed",
                         data |-> [match_id |-> matchId, winner |-> "PracticeBot",
                                   result |-> "bot_won"]]}
  /\ UNCHANGED <<now, checker, payments, paymentStatus, submissions, matchQueue,
                 pendingChallenges, issued, reqs, payouts, accepted>>

\* ------------------------------------------------------------ POST /api/match/practice
\* createPracticeMatch: the row it inserts (active at once, against
\* PracticeBot, no fee and no pot, 120 seconds).
PracticeMatchRow(id, agentId, challenge, challengeSeed) ==
  [id |-> id, agent1_id |-> agentId, agent2_id |-> PracticeBotId,
   challenge_type |-> challenge.type, challenge_data |-> challenge,
   status |-> "active", winner_id |-> NULL, started_at |-> now,
   time_limit |-> 120, entry_fee_wei |-> 0,
   creator_id |-> agentId, opponent_id |-> PracticeBotId,
   pot_wei |-> 0, arena_cut_wei |-> 0, winner_payout_wei |-> 0,
   challenge_seed |-> challengeSeed, is_practice |-> 1,
   elo_change_agent1 |-> 0, elo_change_agent2 |-> 0]

\* "Use easy/medium difficulty only (1-2)"
PracticeDifficulties == {1, 2}

\* challenge_type = NULL stands for a body without challenge_type: the type
\* is then drawn with Math.random.  The handler reads no payment.
PracticeCreate(key, challenge_type) ==
  /\ LET a == getAgentByApiKey(key)
         id == MatchId(Cardinality(DOMAIN matches) + 1)
         req == [kind |-> "practice", pc |-> "done", agent |-> a, matchId |-> id,
                 resp |-> Pending]
     IN IF a = NULL
        THEN /\ reqs' = Append(reqs, [req EXCEPT !.matchId = NoMatch,
                                                 !.resp = Error(401, "Invalid API key")])
             /\ UNCHANGED <<matches, feed>>
        ELSE \E difficulty \in PracticeDifficulties, challengeSeed \in Seeds,
                finalChallengeType \in (IF challenge_type = NULL
                                         THEN {ChallengeTypes[i] : i \in 1..3}
                                         ELSE {challenge_type}) :
             LET challenge == generateChallenge(finalChallengeType, difficulty, challengeSeed)
             IN /\ matches' = (id :> PracticeMatchRow(id, a, challenge, challengeSeed)) @@ matches
                /\ broadcastSSE("practice_match_started",
                     [match_id |-> id, agent |-> agents[a].name,
                      challenge_type |-> challenge.type, difficulty |-> difficulty,
                      is_practice |-> TRUE])
                /\ reqs' = Append(reqs, [req EXCEPT !.resp =
                     [status |-> 200, success |-> TRUE, match_id |-> id,
                      message |-> "Practice match created! No entry fee required.",
                      challenge |-> [type |-> challenge.type, title |-> challenge.title,
                                     description |-> challenge.description,
                                     time_limit |-> 120, difficulty |-> difficulty],
                      is_practice |-> TRUE]])
  /\ UNCHANGED <<now, checker, agents, payments, paymentStatus, submissions, matchQueue,
                 pendingChallenges, issued, payouts, timers, accepted>>

\* ------------------------------------------------------------ the clock
MaxTime == 3         \* minutes the clock runs in one behaviour

Tick ==
  /\ now < MaxTime
  /\ now' = now + 1
  /\ UNCHANGED <<checker, agents, payments, paymentStatus, matches, submissions, matchQueue,
                 pendingChallenges, issued, reqs, payouts, timers, feed, accepted>>

\* ------------------------------------------------------------ setInterval(..., 10000)
\* elapsed = (now - matchStart) / 1000 seconds; elapsed > match.time_limit
Expired(match, at) ==
  /\ match.started_at # NoTime
  /\ (at - match.started_at) * 60 > match.time_limit

\* getActiveMatches and const now = new Date(): the matches of the snapshot
\* the loop has something to do for.
TimedOut(at) ==
  {matches[id] : id \in {i \in DOMAIN matches :
                            /\ matches[i].status \in {"waiting", "active"}
                            /\ Expired(matches[i], at)}}

CheckerStart ==
  /\ checker.pc = "idle"
  /\ TimedOut(now) # {}
  /\ checker' = [Idle EXCEPT !.pc = "loop", !.at = now, !.queue = TimedOut(now)]
  /\ UNCHANGED <<now, agents, payments, paymentStatus, matches, submissions, matchQueue,
                 pendingChallenges, issued, reqs, payouts, timers, feed, accepted>>

\* for (const match of activeMatches), in ORDER BY started_at DESC, and
\* const submissions = await db.getMatchSubmissions(match.id)
CheckerRead ==
  /\ checker.pc = "loop"
  /\ \E match \in checker.queue :
        /\ \A other \in checker.queue : other.started_at <= match.started_at
        /\ checker' = [checker EXCEPT !.pc = "complete", !.cur = match,
                                      !.queue = @ \ {match},
                                      !.correct = CorrectSubmissions(match.id)]
  /\ UNCHANGED <<now, agents, payments, paymentStatus, matches, submissions, matchQueue,
                 pendingChallenges, issued, reqs, payouts, timers, feed, accepted>>

\* correctSubmissions.reduce((best, current) =>
\*   current.score > best.score ? current : best): the earliest of the
\* submissions with the highest score.
BestSubmission(correctSubmissions) ==
  LET i == CHOOSE k \in DOMAIN correctSubmissions :
             /\ \A j \in DOMAIN correctSubmissions :
                   correctSubmissions[j].score <= correctSubmissions[k].score
             /\ \A j \in 1..(k - 1) :
                   correctSubmissions[j].score < correctSubmissions[k].score
  IN correctSubmissions[i]

\* A variant of TimeoutWinner without the practice branch.
TimeoutWinnerRegular(match, correctSubmissions) ==
  IF Len(correctSubmissions) = 0 THEN NULL
  ELSE BestSubmission(correctSubmissions).agent_id

\* The winner the checker completes a timed out match with.
TimeoutWinner(match, correctSubmissions) ==
  IF match.is_practice # 0 THEN PracticeBotId
  ELSE IF Len(correctSubmissions) = 0 THEN NULL
  ELSE BestSubmission(correctSubmissions).agent_id

TimeoutEvent(match, winnerId) ==
  IF match.is_practice # 0
  THEN [event |-> "practice_match_timeout",
        data |-> [match_id |-> match.id, winner |-> "PracticeBot", result |-> "timeout"]]
  ELSE IF winnerId = NULL
  THEN [event |-> "match_timeout",
        data |-> [match_id |-> match.id, winner |-> NULL, result |-> "draw"]]
  ELSE [event |-> "match_timeout",
        data |-> [match_id |-> match.id, winner |-> winnerId, result |-> "timeout"]]

\* completeMatch for the match read, the payout of a regular match with a
\* best submission, the broadcast; then the next match of the snapshot.
CheckerComplete ==
  /\ checker.pc = "complete"
  /\ LET match == checker.cur
         winnerId == TimeoutWinner(match, checker.correct)
     IN /\ completeMatch(match.id, winnerId)
        /\ IF match.is_practice = 0 /\ winnerId # NULL /\ agents[winnerId].wallet # NULL
           THEN sendPayout(match.id, agents[winnerId].wallet, match.winner_payout_wei)
           ELSE UNCHANGED payouts
        /\ feed' = feed \cup {TimeoutEvent(match, winnerId)}
  /\ checker' = IF checker.queue = {} THEN Idle
                ELSE [checker EXCEPT !.pc = "loop", !.cur = EmptyObject, !.correct = <<>>]
  /\ UNCHANGED <<now, payments, paymentStatus, submissions, matchQueue,
                 pendingChallenges, issued, reqs, timers, accepted>>

\* ------------------------------------------------------------ erc8004.js
\* Addresses come checksummed ("W1") or in lower case ("w1").
ToLowerCase(w) == IF w = "W1" THEN "w1" ELSE IF w = "W2" THEN "w2" ELSE w

\* The ERC-8004 registry on Base: ownerOf(tokenId); token 3 does not exist.
TokenOwner == [t \in {1, 2} |-> IF t = 1 THEN "W1" ELSE "W2"]

\* generateChallenge(wallet, tokenId) of erc8004.js; the nonce is the next
\* draw of crypto.randomBytes(32).
ChallengeMessage(wallet, tokenId, nonce) ==
  [wallet |-> wallet, tokenId |-> tokenId, nonce |-> nonce]

RegisterChallenge(wallet, token_id) ==
  /\ LET nonce == Len(issued) + 1
         challenge == [wallet |-> ToLowerCase(wallet), tokenId |-> token_id,
                       message |-> ChallengeMessage(wallet, token_id, nonce),
                       expired |-> FALSE]
     IN /\ pendingChallenges' = (nonce :> challenge) @@ pendingChallenges
        /\ issued' = Append(issued, challenge)
  /\ UNCHANGED <<now, checker, agents, payments, paymentStatus, matches, submissions, matchQueue,
                 reqs, payouts, timers, feed, accepted>>

\* Five minutes pass for a pending challenge: Date.now() > data.expires
ChallengeExpires(nonce) ==
  /\ nonce \in DOMAIN pendingChallenges
  /\ ~pendingChallenges[nonce].expired
  /\ pendingChallenges' = [pendingChallenges EXCEPT ![nonce].expired = TRUE]
  /\ UNCHANGED <<now, checker, agents, payments, paymentStatus, matches, submissions, matchQueue,
                 issued, reqs, payouts, timers, feed, accepted>>

\* setInterval: "Clean expired challenges every 5 minutes"
CleanExpired ==
  /\ \E n \in DOMAIN pendingChallenges : pendingChallenges[n].expired
  /\ pendingChallenges' = [n \in {m \in DOMAIN pendingChallenges : ~pendingChallenges[m].expired}
                             |-> pendingChallenges[n]]
  /\ UNCHANGED <<now, checker, agents, payments, paymentStatus, matches, submissions, matchQueue,
                 issued, reqs, payouts, timers, feed, accepted>>

\* A variant of verifyMessage that checks the signed text but not the signer.
verifyMessageAnySigner(address, message, signature) == signature.message = message

\* viem verifyMessage: the signature was made by the key of `address` over
\* exactly `message`.
verifyMessage(address, message, signature) ==
  ToLowerCase(signature.signer) = ToLowerCase(address) /\ signature.message = message

\* ownerOf(tokenId) == wallet; a token that does not exist makes the call
\* revert.
OwnsToken(challenge) ==
  /\ challenge.tokenId \in DOMAIN TokenOwner
  /\ ToLowerCase(TokenOwner[challenge.tokenId]) = challenge.wallet

\* ------------------------------------------------------------ POST /api/register
\* verifyRegistration up to its first await: the nonce must be pending and
\* not expired (an expired one is deleted).
RegisterStart(nonce, signature, name) ==
  /\ LET req == [kind |-> "register", pc |-> "reg_verify", nonce |-> nonce,
                 signature |-> signature, name |-> name, challenge |-> EmptyObject,
                 resp |-> Pending]
     IN IF nonce \notin DOMAIN pendingChallenges
        THEN /\ reqs' = Append(reqs, [req EXCEPT !.pc = "done",
                                        !.resp = Error(400, "Invalid or expired challenge nonce")])
             /\ UNCHANGED pendingChallenges
        ELSE IF pendingChallenges[nonce].expired
        THEN /\ reqs' = Append(reqs, [req EXCEPT !.pc = "done",
                                        !.resp = Error(400, "Challenge expired")])
             /\ pendingChallenges' = [n \in DOMAIN pendingChallenges \ {nonce}
                                        |-> pendingChallenges[n]]
        ELSE /\ reqs' = Append(reqs, [req EXCEPT !.challenge = pendingChallenges[nonce]])
             /\ UNCHANGED pendingChallenges
  /\ UNCHANGED <<now, checker, agents, payments, paymentStatus, matches, submissions, matchQueue,
                 issued, payouts, timers, feed, accepted>>

\* The rest of verifyRegistration: signature, ownership on chain, and the
\* deletion of the used nonce.
RegisterVerify(r) ==
  /\ Running(r, "register", "reg_verify")
  /\ LET q == reqs[r]
     IN IF ~verifyMessage(q.challenge.wallet, q.challenge.message, q.signature)
        THEN /\ Finish(r, Error(400, "Invalid signature"))
             /\ UNCHANGED pendingChallenges
        ELSE IF q.challenge.tokenId \notin DOMAIN TokenOwner
        THEN /\ Finish(r, Error(400, "Failed to verify ERC-8004 ownership onchain"))
             /\ UNCHANGED pendingChallenges
        ELSE IF ~OwnsToken(q.challenge)
        THEN /\ Finish(r, Error(400, "Wallet does not own ERC-8004 token"))
             /\ UNCHANGED pendingChallenges
        ELSE /\ Goto(r, "reg_insert")
             /\ pendingChallenges' = [n \in DOMAIN pendingChallenges \ {q.nonce}
                                        |-> pendingChallenges[n]]
  /\ UNCHANGED <<now, checker, agents, payments, paymentStatus, matches, submissions, matchQueue,
                 issued, payouts, timers, feed, accepted>>

\* db.registerAgent: a fresh id and API key; the name is UNIQUE
NewAgentId(n) == IF n = 1 THEN "a1" ELSE IF n = 2 THEN "a2" ELSE IF n = 3 THEN "a3" ELSE "a4"
NewApiKey(n) == IF n = 1 THEN "k1" ELSE IF n = 2 THEN "k2" ELSE IF n = 3 THEN "k3" ELSE "k4"

RegisterInsert(r) ==
  /\ Running(r, "register", "reg_insert")
  /\ LET q == reqs[r]
         n == Cardinality(DOMAIN agents)
         id == NewAgentId(n)
     IN IF \E a \in DOMAIN agents : agents[a].name = q.name
        THEN /\ Finish(r, Error(400, "Agent name already exists"))
             /\ UNCHANGED <<agents, paymentStatus, feed>>
        ELSE /\ agents' = (id :> [name |-> q.name, api_key |-> NewApiKey(n),
                                  wallet |-> q.challenge.wallet,
                                  erc8004_identity |-> q.challenge.tokenId,
                                  elo |-> 1000, wins |-> 0, losses |-> 0, draws |-> 0])
                          @@ agents
             /\ paymentStatus' = (id :> NoPayment) @@ paymentStatus
             /\ broadcastSSE("agent_registered",
                  [name |-> q.name, token_id |-> q.challenge.tokenId,
                   wallet |-> q.challenge.wallet])
             /\ Finish(r, [status |-> 200, success |-> TRUE, agent_id |-> id,
                           api_key |-> NewApiKey(n), wallet |-> q.challenge.wallet,
                           token_id |-> q.challenge.tokenId])
  /\ UNCHANGED <<now, checker, payments, matches, submissions, matchQueue, pendingChallenges,
                 issued, payouts, timers, accepted>>

\* ------------------------------------------------------------ initial state
AgentRow(a) ==
  [name |-> IF a = PracticeBotId THEN "PracticeBot" ELSE a, api_key |-> ApiKeyOf(a),
   wallet |-> WalletOf(a), erc8004_identity |-> TokenOf(a),
   elo |-> 1000, wins |-> 0, losses |-> 0, draws |-> 0]

\* A running server with its registered agents and the seeded PracticeBot.
Init ==
  /\ agents = [a \in AgentIds \cup {PracticeBotId} |-> AgentRow(a)]
  /\ payments = {}
  /\ paymentStatus = [a \in AgentIds \cup {PracticeBotId} |-> NoPayment]
  /\ matches = <<>>
  /\ submissions = <<>>
  /\ matchQueue = <<>>
  /\ pendingChallenges = <<>>
  /\ issued = <<>>
  /\ reqs = <<>>
  /\ payouts = <<>>
  /\ timers = {}
  /\ feed = {}
  /\ accepted = {}
  /\ now = 0
  /\ checker = Idle

\* ------------------------------------------------------------ custom matches
Keys == {"k1", "k2"}
CreateTypes == {"cipher_break", "code_golf"}
CreateFees == {10, 13}
CreateTxs == {NoTx, "t1"}
JoinTxs == {"t1", "t2", "t3"}

Next ==
  \/ /\ Len(reqs) < MaxReq
     /\ \E k \in Keys, ct \in CreateTypes, fee \in CreateFees, tx \in CreateTxs :
           CreateStart(k, ct, fee, 0, tx)
  \/ /\ Len(reqs) < MaxReq
     /\ \E k \in Keys, m \in DOMAIN matches, tx \in JoinTxs : JoinStart(k, m, tx)
  \/ /\ Len(reqs) < MaxReq
     /\ \E m \in DOMAIN matches : GetMatch(NoKey, m)
  \/ /\ Len(reqs) < MaxReq
     /\ GetActiveMatches
  \/ /\ Len(reqs) < MaxReq
     /\ \E a \in AgentIds : GetAgent(a)
  \/ \E r \in Reqs : CreateCheck(r)
  \/ \E r \in Reqs : CreateInsert(r)
  \/ \E r \in Reqs : CreateRecord(r)
  \/ \E r \in Reqs : JoinRead(r)
  \/ \E r \in Reqs : JoinCheck(r)
  \/ \E r \in Reqs : JoinUpdate(r)
  \/ \E r \in Reqs : JoinRecord(r)

Spec == Init /\ [][Next]_vars

\* The views of matches that the public GET routes have answered with
PublicMatchViews ==
  UNION {IF reqs[r].kind = "get_match" /\ reqs[r].resp.status = 200 THEN {reqs[r].resp.body}
         ELSE IF reqs[r].kind = "get_active" THEN reqs[r].resp.matches
         ELSE IF reqs[r].kind = "get_agent" /\ reqs[r].resp.status = 200
              THEN reqs[r].resp.recent_matches
         ELSE {} : r \in Reqs}

\* The view holds seed, type and difficulty, and generating from them gives
\* a challenge with private fields whose public part is the one shown.
Regenerates(view) ==
  /\ {"challenge_seed", "challenge_type"} \subseteq DOMAIN view
  /\ "difficulty" \in DOMAIN view.challenge_data
  /\ LET g == generateChallenge(view.challenge_type, view.challenge_data.difficulty,
                                view.challenge_seed)
     IN StripAnswers(g) = view.challenge_data /\ StripAnswers(g) # g

\* C1: no public response carrying a match's challenge holds a field from
\* which the private answer can be recovered: no answer, solution, plaintext
\* or key, no expected output of a test case, and no stored field that
\* regenerates the answer key (challenge_seed with type and difficulty).
C1_NoAnswerInPublicViews ==
  \A view \in PublicMatchViews :
     /\ DOMAIN view.challenge_data \cap {"answer", "solution", "plaintext", "key"} = {}
     /\ "testCases" \in DOMAIN view.challenge_data =>
           \A i \in DOMAIN view.challenge_data.testCases :
              "expected" \notin DOMAIN view.challenge_data.testCases[i]
     /\ ~Regenerates(view)

\* C3: a transaction hash gives at most one payment record and is taken as
\* the entry payment of at most one match.
C3_NoDoubleSpend ==
  /\ \A p1, p2 \in payments : p1.tx_hash = p2.tx_hash => p1 = p2
  /\ \A e1, e2 \in accepted : e1[1] = e2[1] => e1 = e2

\* C4: a custom match is active only when both players have paid: its
\* creator has a verified payment of at least the entry fee, and so has its
\* opponent once the join request has been answered.
C4_ActiveOnlyWhenBothPaid ==
  \A id \in DOMAIN matches :
     LET m == matches[id]
     IN m.status = "active" =>
          /\ \E p \in payments : p.agent_id = m.creator_id /\ p.amount_wei >= m.entry_fee_wei
          /\ (\A r \in Reqs : reqs[r].kind = "join" /\ reqs[r].matchId = id
                                 => reqs[r].pc = "done")
                => \E p \in payments : p.agent_id = m.opponent_id /\
                                       p.amount_wei >= m.entry_fee_wei

\* ------------------------------------------------------------ /pay alone
MaxPayReq == 2
PayKeys == {"k1", "k2", NoKey}
PayTxs == {NoTx, "t1", "t2", "tLow", "tRev", "tElse", "tNone"}

NextPay ==
  \/ /\ Len(reqs) < MaxPayReq
     /\ \E k \in PayKeys, tx \in PayTxs : PayStart(k, tx, NoMatch)
  \/ \E r \in Reqs : PayCheck(r)
  \/ \E r \in Reqs : PayRecord(r)

SpecPay == Init /\ [][NextPay]_vars

\* The conditions under which a transaction counts for an agent.
PaidBy(txHash, agentId) ==
  /\ OnChain(txHash)
  /\ Chain[txHash].status = "success"
  /\ Chain[txHash].to = ARENA_WALLET
  /\ Chain[txHash].value >= ENTRY_FEE_WEI
  /\ Chain[txHash].from = agents[agentId].wallet

PayAnswered(status) == {r \in Reqs : reqs[r].kind = "pay" /\ reqs[r].resp.status = status}

\* C6: /pay records a payment only for a transaction that succeeded, went to
\* the arena wallet, is worth the entry fee, was sent by the agent's wallet
\* and whose hash is not yet recorded; a request that fails a check records
\* nothing, so the payments are exactly those of the requests answered 200
\* and each agent's balance is the sum of its own accepted transactions.
C6_PayRecordsOnlyVerified ==
  /\ \A p \in payments :
        /\ PaidBy(p.tx_hash, p.agent_id)
        /\ p.amount_wei = Chain[p.tx_hash].value
        /\ \E r \in PayAnswered(200) : reqs[r].txHash = p.tx_hash /\ reqs[r].agent = p.agent_id
  /\ \A p1, p2 \in payments : p1.tx_hash = p2.tx_hash => p1 = p2
  /\ \A r \in PayAnswered(200) :
        \E p \in payments : p.tx_hash = reqs[r].txHash /\ p.agent_id = reqs[r].agent
  /\ Cardinality(payments) = Cardinality(PayAnswered(200))
  /\ \A a \in AgentIds :
        (\A r \in PayAnswered(200) : reqs[r].agent # a) => getAgentPaymentBalance(a) = 0

C6_Witness ==
  /\ PayAnswered(200) # {}
  /\ PayAnswered(400) # {}
  /\ Cardinality(payments) = 1

\* ------------------------------------------------------------ registration
MaxNonce == 1        \* challenges requested in one behaviour of SpecReg
MaxRegReq == 2       \* POST /api/register requests in one behaviour of SpecReg

InitReg ==
  /\ agents = [a \in {PracticeBotId} |-> AgentRow(a)]
  /\ payments = {}
  /\ paymentStatus = [a \in {PracticeBotId} |-> NoPayment]
  /\ matches = <<>>
  /\ submissions = <<>>
  /\ matchQueue = <<>>
  /\ pendingChallenges = <<>>
  /\ issued = <<>>
  /\ reqs = <<>>
  /\ payouts = <<>>
  /\ timers = {}
  /\ feed = {}
  /\ accepted = {}
  /\ now = 0
  /\ checker = Idle

RegWallets == {"W1", "w2"}
RegTokens == {1, 3}
RegNames == {"alice", "bob"}
Signers == {"w1", "w2"}

\* What a client can send as signature for a nonce: the served message
\* signed with a key it holds.
Signatures(nonce) ==
  {[signer |-> w,
    message |-> IF nonce \in DOMAIN issued THEN issued[nonce].message ELSE EmptyObject] :
     w \in Signers}

NextReg ==
  \/ /\ Len(issued) < MaxNonce
     /\ \E w \in RegWallets, t \in RegTokens : RegisterChallenge(w, t)
  \/ \E n \in DOMAIN pendingChallenges : ChallengeExpires(n)
  \/ CleanExpired
  \/ /\ Len(reqs) < MaxRegReq
     /\ \E n \in 1..MaxNonce, name \in RegNames :
          \E sig \in Signatures(n) : RegisterStart(n, sig, name)
  \/ \E r \in Reqs : RegisterVerify(r)
  \/ \E r \in Reqs : RegisterInsert(r)

SpecReg == InitReg /\ [][NextReg]_vars

Registered == {r \in Reqs : reqs[r].kind = "register" /\ reqs[r].resp.status = 200}

\* What verifyRegistration has established of a registration: its nonce was
\* issued; the request's signature is by the wallet the challenge was
\* issued for, over that challenge's message; and that wallet is the owner
\* of the challenge's token on chain.
C7_VerifiedRegistration(r) ==
  LET q == reqs[r]
  IN /\ q.nonce \in DOMAIN issued
     /\ q.challenge = issued[q.nonce]
     /\ ToLowerCase(q.signature.signer) = issued[q.nonce].wallet
     /\ q.signature.message = issued[q.nonce].message
     /\ issued[q.nonce].tokenId \in DOMAIN TokenOwner
     /\ ToLowerCase(TokenOwner[issued[q.nonce].tokenId]) = issued[q.nonce].wallet

\* Every agent row comes from a verified registration and carries its
\* wallet and token; every registration past verifyRegistration is verified.
C7_Rows ==
  /\ \A a \in DOMAIN agents \ {PracticeBotId} :
        \E r \in Registered :
           /\ reqs[r].resp.agent_id = a
           /\ reqs[r].resp.api_key = agents[a].api_key
           /\ agents[a].wallet = issued[reqs[r].nonce].wallet
           /\ agents[a].erc8004_identity = issued[reqs[r].nonce].tokenId
  /\ \A r \in Reqs :
        (reqs[r].kind = "register" /\ reqs[r].pc \in {"reg_insert"} \cup {"done"} /\
         (reqs[r].pc = "done" => reqs[r].resp.status = 200))
           => C7_VerifiedRegistration(r)

\* A registration passes the lookup only with a nonce that is pending and
\* not expired at that moment.
C7_Lookup ==
  \A r \in 1..Len(reqs') :
     (r > Len(reqs) /\ reqs'[r].kind = "register" /\ reqs'[r].pc = "reg_verify")
        => /\ reqs'[r].nonce \in DOMAIN pendingChallenges
           /\ ~pendingChallenges[reqs'[r].nonce].expired
           /\ reqs'[r].challenge = pendingChallenges[reqs'[r].nonce]

PaidRow(n, agentId, txHash) ==
  [id |-> <<"pay", n>>, agent_id |-> agentId, tx_hash |-> txHash,
   amount_wei |-> Chain[txHash].value, from_wallet |-> Chain[txHash].from,
   match_id |-> NoMatch]

InitPaid ==
  /\ agents = [a \in AgentIds \cup {PracticeBotId} |-> AgentRow(a)]
  /\ payments = {PaidRow(1, "a1", "t1"), PaidRow(2, "a2", "t3")}
  /\ paymentStatus = [a \in AgentIds \cup {PracticeBotId} |->
                        IF a = "a1" THEN <<"pay", 1>>
                        ELSE IF a = "a2" THEN <<"pay", 2>> ELSE NoPayment]
  /\ matches = <<>>
  /\ submissions = <<>>
  /\ matchQueue = <<>>
  /\ pendingChallenges = <<>>
  /\ issued = <<>>
  /\ reqs = <<>>
  /\ payouts = <<>>
  /\ timers = {}
  /\ feed = {}
  /\ accepted = {}
  /\ now = 0
  /\ checker = Idle

MaxQueueReq == 3     \* requests started in one behaviour of SpecQueue
QueueTypes == {NULL, "cipher_break"}
QueueDifficulties == {2}

\* The ids a client has been given for its quick matches
ReturnedIds ==
  {reqs[r].resp.match_id :
     r \in {x \in Reqs : reqs[x].kind = "queue" /\ reqs[x].resp.status = 200 /\
                         "match_id" \in DOMAIN reqs[x].resp}}

NextQueue ==
  \/ /\ Len(reqs) < MaxQueueReq
     /\ \E k \in Keys, ct \in QueueTypes, d \in QueueDifficulties : QueueStart(k, ct, d)
  \/ /\ Len(reqs) < MaxQueueReq
     /\ \E id \in ReturnedIds \cup DOMAIN matches : GetMatch(NoKey, id)
  \/ \E r \in Reqs : QueueAfford(r)
  \/ \E r \in Reqs : QueuePush(r)
  \/ \E r \in Reqs : QueueInsert(r)

SpecQueue == InitPaid /\ [][NextQueue]_vars

Waiting(agentId) == \E i \in DOMAIN matchQueue : matchQueue[i].agent = agentId

\* The step of a queue request that reaches the queue: with an agent waiting
\* the caller is paired with the head of the queue and both are off the
\* queue; with nobody waiting the caller becomes the only entry.
C8_Push ==
  \A r \in Reqs :
     (reqs[r].kind = "queue" /\ reqs[r].pc = "queue_push" /\ reqs'[r].pc # "queue_push"
        /\ ~Waiting(reqs[r].agent))
     => IF matchQueue # <<>>
        THEN /\ reqs'[r].pc = "queue_insert"
             /\ reqs'[r].pairing.agent1Entry = Head(matchQueue)
             /\ reqs'[r].pairing.agent2Entry.agent = reqs[r].agent
             /\ matchQueue' = Tail(matchQueue)
        ELSE /\ reqs'[r].resp.status = 200
             /\ "match_id" \notin DOMAIN reqs'[r].resp
             /\ Len(matchQueue') = 1
             /\ matchQueue'[1].agent = reqs[r].agent

\* The step that stores the quick match: one new row, active, between the
\* two paired agents, and the caller is told "Match found!".
C8_Insert ==
  \A r \in Reqs :
     (reqs[r].kind = "queue" /\ reqs[r].pc = "queue_insert" /\ reqs'[r].pc # "queue_insert")
     => /\ reqs'[r].resp.message = "Match found!"
        /\ \E id \in DOMAIN matches' \ DOMAIN matches :
              /\ DOMAIN matches' = DOMAIN matches \cup {id}
              /\ matches'[id].status = "active"
              /\ matches'[id].agent1_id = reqs[r].pairing.agent1Entry.agent
              /\ matches'[id].agent2_id = reqs[r].agent

\* C8: POST /api/match/queue pairs the caller at once with the longest
\* waiting agent (FIFO), stores an active match between exactly those two,
\* and takes both off the queue; when nobody waits the caller is appended.
C8_QueueFifo == [][C8_Push /\ C8_Insert]_vars

C8_Witness ==
  /\ \E r \in Reqs : reqs[r].kind = "queue" /\ reqs[r].pc = "done" /\
                     reqs[r].resp.status = 200 /\ "match_id" \in DOMAIN reqs[r].resp
  /\ \E id \in DOMAIN matches : matches[id].status = "active" /\
                                matches[id].agent1_id # matches[id].agent2_id
  /\ matchQueue = <<>>

\* C9: the match_id answered by /queue with "Match found!" is the id under
\* which the match is stored, and GET /api/match/{match_id} returns it.
C9_ReturnedIdIsStored ==
  /\ ReturnedIds \subseteq DOMAIN matches
  /\ \A r \in Reqs :
        (reqs[r].kind = "get_match" /\ reqs[r].id \in ReturnedIds)
           => reqs[r].resp.status = 200

\* ------------------------------------------------------------ pots
\* Custom matches (created without txHash, joined with t2) and quick
\* matches side by side.
MaxPotReq == 3       \* requests started in one behaviour of SpecPot
PotTypes == {"code_golf"}
PotJoinTxs == {"t2"}

NextPot ==
  \/ /\ Len(reqs) < MaxPotReq
     /\ \E k \in Keys, ct \in PotTypes, fee \in CreateFees : CreateStart(k, ct, fee, 0, NoTx)
  \/ /\ Len(reqs) < MaxPotReq
     /\ \E k \in Keys, m \in DOMAIN matches, tx \in PotJoinTxs : JoinStart(k, m, tx)
  \/ /\ Len(reqs) < MaxPotReq
     /\ \E k \in Keys : QueueStart(k, NULL, 2)
  \/ \E r \in Reqs : CreateInsert(r)
  \/ \E r \in Reqs : JoinRead(r)
  \/ \E r \in Reqs : JoinCheck(r)
  \/ \E r \in Reqs : JoinUpdate(r)
  \/ \E r \in Reqs : JoinRecord(r)
  \/ \E r \in Reqs : QueueAfford(r)
  \/ \E r \in Reqs : QueuePush(r)
  \/ \E r \in Reqs : QueueInsert(r)

SpecPot == InitPaid /\ [][NextPot]_vars

\* C5: every match that has become active with entry fee f, joined custom
\* match or quick match, has pot 2f, arena cut floor(pot / 10) and winner
\* payout pot - cut; cut and payout add up to the pot and the payout is at
\* least 90% of the pot.
C5_PotSplit ==
  \A id \in DOMAIN matches :
     LET m == matches[id]
     IN m.status # "open" =>
          /\ m.pot_wei = 2 * m.entry_fee_wei
          /\ 10 * m.arena_cut_wei <= m.pot_wei
          /\ m.pot_wei < 10 * (m.arena_cut_wei + 1)
          /\ m.winner_payout_wei = m.pot_wei - m.arena_cut_wei
          /\ m.arena_cut_wei + m.winner_payout_wei = m.pot_wei
          /\ 10 * m.winner_payout_wei >= 9 * m.pot_wei

\* a joined custom match whose pot is not a multiple of ten
C5_Witness ==
  \E id \in DOMAIN matches :
     /\ matches[id].status = "active"
     /\ matches[id].opponent_id = "a2"
     /\ matches[id].entry_fee_wei = 13
     /\ matches[id].pot_wei = 26
     /\ matches[id].arena_cut_wei = 2
     /\ matches[id].winner_payout_wei = 24

\* ------------------------------------------------------------ submissions
\* The server after a1 and a2, both paid, have been paired by /queue into a
\* quick cipher_break match; the requests that follow are counted from here.
ActiveEntries ==
  [agent1Entry |-> [agent |-> "a1", challenge_type |-> "cipher_break", difficulty |-> 2],
   agent2Entry |-> [agent |-> "a2", challenge_type |-> NULL, difficulty |-> 2]]

InitActive ==
  \E challengeSeed \in Seeds :
     LET challenge == generateChallenge("cipher_break", 2, challengeSeed)
     IN /\ now = 0
        /\ agents = [a \in AgentIds \cup {PracticeBotId} |-> AgentRow(a)]
        /\ payments = {PaidRow(1, "a1", "t1"), PaidRow(2, "a2", "t3")}
        /\ paymentStatus = [a \in AgentIds \cup {PracticeBotId} |->
                              IF a = "a1" THEN <<"pay", 1>>
                              ELSE IF a = "a2" THEN <<"pay", 2>> ELSE NoPayment]
        /\ matches = (MatchId(1) :> QuickMatchRow(MatchId(1), ActiveEntries.agent1Entry,
                                                  ActiveEntries.agent2Entry, challenge,
                                                  challengeSeed))
        /\ submissions = <<>>
        /\ matchQueue = <<>>
        /\ pendingChallenges = <<>>
        /\ issued = <<>>
        /\ reqs = <<>>
        /\ payouts = <<>>
        /\ timers = {}
        /\ feed = {[event |-> "match_started",
                    data |-> [match_id |-> FinalMatchId(1), agent1 |-> "a1", agent2 |-> "a2",
                              challenge_type |-> "cipher_break",
                              entry_fee_wei |-> ENTRY_FEE_WEI]]}
        /\ accepted = {}
        /\ checker = Idle
  /\ now = 0
  /\ checker = Idle

MaxSubmitReq == 2    \* submit requests in one behaviour of SpecSubmit
Solutions == {NoSolution, [text |-> 1], [text |-> 3]}

NextSubmit ==
  \/ /\ Len(reqs) < MaxSubmitReq
     /\ \E k \in Keys, m \in DOMAIN matches, sol \in Solutions : SubmitStart(k, m, sol)
  \/ \E r \in Reqs : SubmitRead(r)
  \/ \E r \in Reqs : SubmitExisting(r)
  \/ \E r \in Reqs : SubmitInsert(r)
  \/ \E r \in Reqs : SubmitMark(r)
  \/ \E r \in Reqs : SubmitCount(r)
  \/ \E r \in Reqs : SubmitComplete(r)
  \/ \E r \in Reqs : SubmitPayout(r)

SpecSubmit == InitActive /\ [][NextSubmit]_vars

AllAnswered == \A r \in Reqs : reqs[r].pc = "done"

\* C2: first correct solution wins.  Once the submit requests have been
\* processed, a non-practice match with a correct submission is completed
\* and its winner is the agent whose correct submission was recorded first.
C2_FirstCorrectWins ==
  AllAnswered =>
     \A id \in DOMAIN matches :
        LET correct == CorrectSubmissions(id)
        IN (matches[id].is_practice = 0 /\ Len(correct) > 0)
             => /\ matches[id].status = "completed"
                /\ matches[id].winner_id = correct[1].agent_id

\* ------------------------------------------------------------ joins
\* Custom matches created without txHash and the join requests for them.
MaxJoinReq == 3      \* requests started in one behaviour of SpecJoin
JoinFees == {10}
JoinOnlyTxs == {"t2", "t3"}

NextJoin ==
  \/ /\ Len(reqs) < MaxJoinReq
     /\ \E k \in Keys, ct \in CreateTypes, fee \in JoinFees : CreateStart(k, ct, fee, 0, NoTx)
  \/ /\ Len(reqs) < MaxJoinReq
     /\ \E k \in Keys, m \in DOMAIN matches, tx \in JoinOnlyTxs : JoinStart(k, m, tx)
  \/ \E r \in Reqs : CreateInsert(r)
  \/ \E r \in Reqs : JoinRead(r)
  \/ \E r \in Reqs : JoinCheck(r)
  \/ \E r \in Reqs : JoinUpdate(r)
  \/ \E r \in Reqs : JoinRecord(r)

SpecJoin == Init /\ [][NextJoin]_vars

\* The join requests that have generated the challenge of a match
Generated(id) ==
  {r \in Reqs : reqs[r].kind = "join" /\ reqs[r].matchId = id /\
                reqs[r].pc \in {"join_update", "join_record"} \cup
                  (IF reqs[r].resp.status = 200 THEN {"done"} ELSE {})}

MaxCustomReq == 3    \* requests started in one behaviour of SpecCustom
CustomTypes == {"random", "hash_hunt"}
CustomDifficulties == {0, 5}

NextCustom ==
  \/ /\ Len(reqs) < MaxCustomReq
     /\ \E k \in Keys, ct \in CustomTypes, d \in CustomDifficulties :
           CreateStart(k, ct, 10, d, NoTx)
  \/ /\ Len(reqs) < MaxCustomReq
     /\ \E k \in Keys, m \in DOMAIN matches, tx \in JoinOnlyTxs : JoinStart(k, m, tx)
  \/ \E r \in Reqs : CreateInsert(r)
  \/ \E r \in Reqs : JoinRead(r)
  \/ \E r \in Reqs : JoinCheck(r)
  \/ \E r \in Reqs : JoinUpdate(r)
  \/ \E r \in Reqs : JoinRecord(r)

SpecCustom == Init /\ [][NextCustom]_vars

\* The create requests that were answered with a match
Created == {r \in Reqs : reqs[r].kind = "create" /\ reqs[r].pc = "done" /\
                         reqs[r].resp.status = 200}

\* C11: the challenge of a custom match that has been joined has the type
\* and the difficulty (3 when none was given) its creator asked for in the
\* create request.
C11_RequestedTypeAndDifficulty ==
  \A r \in Created :
     LET match == matches[reqs[r].matchId]
     IN match.status = "active" =>
          /\ match.challenge_data.type = reqs[r].challengeType
          /\ match.challenge_data.difficulty =
               (IF reqs[r].difficulty = 0 THEN 3 ELSE reqs[r].difficulty)

\* C12: a create request with challengeType 'random' is served: it is
\* answered with a match, stored open with a null type.
C12_RandomIsStoredOpen ==
  \A r \in Reqs :
     (reqs[r].kind = "create" /\ reqs[r].challengeType = "random" /\ reqs[r].pc = "done")
       => /\ reqs[r].resp.status = 200
          /\ reqs[r].matchId \in DOMAIN matches
          /\ matches[reqs[r].matchId].challenge_type = NULL

\* ------------------------------------------------------------ practice
\* The server after a1 has created a first cipher_break practice match and
\* won it with a correct solution; the requests that follow are counted
\* from here.  a1 creates practice matches and submits to them while the
\* clock runs, the 5 second timers fire and the timeout checker looks for
\* matches past their limit.
InitPractised ==
  \E challengeSeed \in Seeds :
     LET id == MatchId(1)
         challenge == generateChallenge("cipher_break", 1, challengeSeed)
     IN /\ agents = [a \in AgentIds \cup {PracticeBotId} |-> AgentRow(a)]
        /\ payments = {}
        /\ paymentStatus = [a \in AgentIds \cup {PracticeBotId} |-> NoPayment]
        /\ matches = (id :> [status |-> "completed", id |-> id, agent1_id |-> "a1",
                             agent2_id |-> PracticeBotId, challenge_type |-> challenge.type,
                             challenge_data |-> challenge, winner_id |-> "a1",
                             started_at |-> 0, time_limit |-> 120, entry_fee_wei |-> 0,
                             creator_id |-> "a1", opponent_id |-> PracticeBotId,
                             pot_wei |-> 0, arena_cut_wei |-> 0, winner_payout_wei |-> 0,
                             challenge_seed |-> challengeSeed, is_practice |-> 1,
                             elo_change_agent1 |-> 0, elo_change_agent2 |-> 0])
        /\ submissions = << [id |-> <<"sub", 1>>, match_id |-> id, agent_id |-> "a1",
                             solution |-> [text |-> challenge.answer],
                             correct |-> TRUE, score |-> 100] >>
        /\ matchQueue = <<>>
        /\ pendingChallenges = <<>>
        /\ issued = <<>>
        /\ reqs = <<>>
        /\ payouts = <<>>
        /\ timers = {}
        /\ feed = {[event |-> "practice_match_started",
                    data |-> [match_id |-> id, agent |-> "a1", challenge_type |-> challenge.type,
                              difficulty |-> 1, is_practice |-> TRUE]],
                   [event |-> "practice_match_completed",
                    data |-> [match_id |-> id, winner |-> "a1", result |-> "agent_won"]],
                   [event |-> "solution_submitted",
                    data |-> [match_id |-> id, agent |-> "a1", correct |-> TRUE,
                              score |-> 100]]}
        /\ accepted = {}
        /\ now = 0
        /\ checker = Idle

MaxPracticeReq == 2  \* requests started in one behaviour of SpecPractice
PracticeKeys == {"k1"}
PracticeTypes == {"cipher_break"}
PracticeSolutions == {[text |-> 1], [text |-> 3]}

NextPractice ==
  \/ /\ Len(reqs) < MaxPracticeReq
     /\ \E k \in PracticeKeys, ct \in PracticeTypes : PracticeCreate(k, ct)
  \/ /\ Len(reqs) < MaxPracticeReq
     /\ \E k \in PracticeKeys, m \in DOMAIN matches, sol \in PracticeSolutions :
           SubmitStart(k, m, sol)
  \/ \E r \in Reqs : SubmitRead(r)
  \/ \E r \in Reqs : SubmitExisting(r)
  \/ \E r \in Reqs : SubmitInsert(r)
  \/ \E r \in Reqs : SubmitMark(r)
  \/ \E r \in Reqs : SubmitComplete(r)
  \/ \E m \in DOMAIN matches : PracticeTimer(m)
  \/ Tick
  \/ CheckerStart
  \/ CheckerRead
  \/ CheckerComplete

SpecPractice == InitPractised /\ [][NextPractice]_vars

\* A server with no match yet, where the event loop runs every callback
\* that is due: the timers of /submit and the steps of the timeout checker.
MaxFairReq == 2      \* requests started in one behaviour of SpecPracticeFair

NextPracticeFair ==
  \/ /\ Len(reqs) < MaxFairReq
     /\ \E k \in PracticeKeys, ct \in PracticeTypes : PracticeCreate(k, ct)
  \/ /\ Len(reqs) < MaxFairReq
     /\ \E k \in PracticeKeys, m \in DOMAIN matches, sol \in PracticeSolutions :
           SubmitStart(k, m, sol)
  \/ \E r \in Reqs : SubmitRead(r)
  \/ \E r \in Reqs : SubmitExisting(r)
  \/ \E r \in Reqs : SubmitInsert(r)
  \/ \E r \in Reqs : SubmitMark(r)
  \/ \E r \in Reqs : SubmitComplete(r)
  \/ \E m \in DOMAIN matches : PracticeTimer(m)
  \/ Tick
  \/ CheckerStart
  \/ CheckerRead
  \/ CheckerComplete

SpecPracticeFair ==
  /\ Init /\ [][NextPracticeFair]_vars
  /\ WF_vars(\E m \in DOMAIN matches : PracticeTimer(m))
  /\ WF_vars(CheckerStart)
  /\ WF_vars(CheckerRead)
  /\ WF_vars(CheckerComplete)

PracticeIds == {MatchId(n) : n \in 1..MaxFairReq}

\* The submit requests of an agent with a solution found correct for a
\* practice match
CorrectPractice ==
  {r \in Reqs : /\ reqs[r].kind = "submit"
                /\ reqs[r].validation # EmptyObject
                /\ reqs[r].validation.valid
                /\ reqs[r].match.is_practice # 0}

\* C13: in a practice match a correct solution from the agent completes the
\* match at once: the step that ends the handler of the agent's submit
\* request with the solution found correct leaves the match completed with
\* that agent as winner, without waiting for a timer or for the checker.
C13_CorrectPracticeWinsAtOnce ==
  [][\A r \in CorrectPractice :
        (reqs[r].agent = reqs[r].match.agent1_id /\ reqs[r].pc # "done" /\ reqs'[r].pc = "done")
          => /\ reqs'[r].resp.status = 200
             /\ matches'[reqs[r].matchId].status = "completed"
             /\ matches'[reqs[r].matchId].winner_id = reqs[r].agent]_vars

\* a correct practice submission has been answered and its agent has won
C13_Witness ==
  \E r \in CorrectPractice :
     /\ reqs[r].pc = "done"
     /\ reqs[r].resp.status = 200
     /\ matches[reqs[r].matchId].status = "completed"
     /\ matches[reqs[r].matchId].winner_id = reqs[r].agent

\* C14: in a practice match, once the agent's wrong solution has armed the
\* 5 second timer, the match is eventually completed with PracticeBot as
\* winner.
C14_WrongPracticeBotWins ==
  \A id \in PracticeIds :
     (id \in timers) ~> (/\ id \in DOMAIN matches
                         /\ matches[id].status = "completed"
                         /\ matches[id].winner_id = PracticeBotId)

\* the timer of a wrong submission has fired, before the time limit
C14_Witness ==
  \E id \in DOMAIN matches :
     /\ matches[id].is_practice # 0
     /\ matches[id].status = "completed"
     /\ matches[id].winner_id = PracticeBotId
     /\ id \notin timers
     /\ ~Expired(matches[id], now)
     /\ \E i \in DOMAIN submissions :
           submissions[i].match_id = id /\ ~submissions[i].correct

\* The agent of a practice match has a submission marked correct
AgentSolved(id) ==
  \E i \in DOMAIN submissions :
     /\ submissions[i].match_id = id
     /\ submissions[i].agent_id = matches[id].agent1_id
     /\ submissions[i].correct

\* C15: a practice match that is active past its time limit is eventually
\* completed, with PracticeBot as winner unless the agent has solved it; and
\* whenever the timeout checker completes a practice match the winner it
\* stores is PracticeBot.
C15_PracticeTimeout ==
  /\ \A id \in PracticeIds :
        (/\ id \in DOMAIN matches
         /\ matches[id].status = "active"
         /\ Expired(matches[id], now))
          ~> (/\ id \in DOMAIN matches
              /\ matches[id].status = "completed"
              /\ (matches[id].winner_id = PracticeBotId \/ AgentSolved(id)))
  /\ [][(checker.pc = "complete" /\ checker'.pc # "complete" /\ checker.cur.is_practice # 0)
          => /\ matches'[checker.cur.id].status = "completed"
             /\ matches'[checker.cur.id].winner_id = PracticeBotId]_vars

\* the checker has completed a practice match nobody submitted to
C15_Witness ==
  \E id \in DOMAIN matches :
     /\ matches[id].is_practice # 0
     /\ matches[id].status = "completed"
     /\ matches[id].winner_id = PracticeBotId
     /\ Expired(matches[id], now)
     /\ getMatchSubmissions(id) = <<>>
     /\ \E e \in feed : e.event = "practice_match_timeout" /\ e.data.match_id = id

\* C16: practice matches are free.  Practice matches are created for an
\* agent that has paid nothing, carry no fee and no pot, and however they
\* are completed (by the agent's correct solution, by the timer or by the
\* timeout checker) elo, wins, losses and draws of the agent and of
\* PracticeBot stay what they were and no payout is sent.
C16_PracticeIsFree ==
  /\ payments = {}
  /\ payouts = <<>>
  /\ \A a \in DOMAIN agents : agents[a] = AgentRow(a)
  /\ \A id \in DOMAIN matches :
        /\ matches[id].is_practice # 0
        /\ matches[id].entry_fee_wei = 0
        /\ matches[id].winner_payout_wei = 0
        /\ matches[id].elo_change_agent1 = 0
        /\ matches[id].elo_change_agent2 = 0

\* one practice match won by the agent and one won by PracticeBot
C16_Witness ==
  \E id1, id2 \in DOMAIN matches :
     /\ matches[id1].status = "completed"
     /\ matches[id1].winner_id = matches[id1].agent1_id
     /\ matches[id2].status = "completed"
     /\ matches[id2].winner_id = PracticeBotId

\* ------------------------------------------------------------ timeouts
\* The quick match of InitActive, the submissions of its two agents, the
\* clock and the timeout checker, whose callback runs whenever it is due.
MaxTimeoutReq == 1   \* submit requests in one behaviour of SpecTimeout
TimeoutSolutions == {[text |-> 1], [text |-> 3]}

NextTimeout ==
  \/ /\ Len(reqs) < MaxTimeoutReq
     /\ \E k \in Keys, m \in DOMAIN matches, sol \in TimeoutSolutions : SubmitStart(k, m, sol)
  \/ \E r \in Reqs : SubmitRead(r)
  \/ \E r \in Reqs : SubmitExisting(r)
  \/ \E r \in Reqs : SubmitInsert(r)
  \/ \E r \in Reqs : SubmitMark(r)
  \/ \E r \in Reqs : SubmitCount(r)
  \/ \E r \in Reqs : SubmitComplete(r)
  \/ \E r \in Reqs : SubmitPayout(r)
  \/ Tick
  \/ CheckerStart
  \/ CheckerRead
  \/ CheckerComplete

SpecTimeout ==
  /\ InitActive /\ [][NextTimeout]_vars
  /\ WF_vars(CheckerStart)
  /\ WF_vars(CheckerRead)
  /\ WF_vars(CheckerComplete)

\* Nothing was sent to anybody for the match
NoPayout(id) == \A i \in DOMAIN payouts : payouts[i].match_id # id

\* The checker completes a regular match that has no correct submission
DrawStep(id) ==
  /\ checker.pc = "complete"
  /\ checker'.pc # "complete"
  /\ checker.cur.id = id
  /\ checker.cur.is_practice = 0
  /\ CorrectSubmissions(id) = <<>>

\* What a draw does to the row of one agent of the match
DrawnRow(row, opponent) ==
  [row EXCEPT !.draws = @ + 1, !.elo = @ + EloChange(row.elo, opponent.elo, 1)]

\* C17: a non-practice match active past its time limit with no correct
\* submission is eventually completed, as a draw as long as no correct
\* submission has come in; the checker's completion of such a match stores
\* winner_id null, adds one draw to each of the two agents (rating update
\* with half a point each, wins and losses as they were) and sends no
\* payout.
C17_TimeoutDraw ==
  /\ ((/\ matches[MatchId(1)].status = "active"
       /\ Expired(matches[MatchId(1)], now)
       /\ CorrectSubmissions(MatchId(1)) = <<>>)
        ~> (/\ matches[MatchId(1)].status = "completed"
            /\ (CorrectSubmissions(MatchId(1)) = <<>> =>
                  /\ matches[MatchId(1)].winner_id = NULL
                  /\ NoPayout(MatchId(1)))))
  /\ [][DrawStep(MatchId(1)) =>
          LET m == matches[MatchId(1)]
          IN /\ matches'[MatchId(1)].status = "completed"
             /\ matches'[MatchId(1)].winner_id = NULL
             /\ agents'[m.agent1_id] = DrawnRow(agents[m.agent1_id], agents[m.agent2_id])
             /\ agents'[m.agent2_id] = DrawnRow(agents[m.agent2_id], agents[m.agent1_id])
             /\ payouts' = payouts]_vars

\* the match has timed out after a wrong submission and is a draw
C17_Witness ==
  /\ matches[MatchId(1)].status = "completed"
  /\ matches[MatchId(1)].winner_id = NULL
  /\ Expired(matches[MatchId(1)], now)
  /\ agents["a1"].draws = 1
  /\ agents["a2"].draws = 1
  /\ agents["a1"].elo + agents["a2"].elo = 2000
  /\ payouts = <<>>
  /\ Len(getMatchSubmissions(MatchId(1))) > 0
  /\ CorrectSubmissions(MatchId(1)) = <<>>

\* ------------------------------------------------------------ verdicts
\* The submit requests of SpecSubmit, every handler running on after each
\* of its awaits.
SpecSubmitFair ==
  /\ InitActive /\ [][NextSubmit]_vars
  /\ WF_vars(\E r \in Reqs : SubmitRead(r))
  /\ WF_vars(\E r \in Reqs : SubmitExisting(r))
  /\ WF_vars(\E r \in Reqs : SubmitInsert(r))
  /\ WF_vars(\E r \in Reqs : SubmitMark(r))
  /\ WF_vars(\E r \in Reqs : SubmitCount(r))
  /\ WF_vars(\E r \in Reqs : SubmitComplete(r))
  /\ WF_vars(\E r \in Reqs : SubmitPayout(r))

\* The request has been answered with its ValidationResult and the
\* submission stored for it carries the same verdict.
VerdictStored(r) ==
  /\ reqs[r].pc = "done"
  /\ reqs[r].resp.status = 200
  /\ reqs[r].resp.validation = reqs[r].validation
  /\ \E i \in DOMAIN submissions :
        /\ submissions[i].id = reqs[r].submissionId
        /\ submissions[i].id = reqs[r].resp.submission_id
        /\ submissions[i].agent_id = reqs[r].agent
        /\ submissions[i].correct = reqs[r].validation.valid
        /\ submissions[i].score = reqs[r].validation.score

\* The request has passed the checks of the handler (active match, agent
\* of the match, not yet submitted) and its solution has been validated.
SubmitAccepted(r) ==
  /\ r \in Reqs
  /\ reqs[r].kind = "submit"
  /\ reqs[r].pc \notin {"submit_read", "submit_existing"}
  /\ reqs[r].validation # EmptyObject

\* C18: every submit request accepted for an active match from one of its
\* agents ends answered with a ValidationResult, and with a stored
\* submission whose correct flag and score are that result's; every stored
\* submission belongs to such a request, so none stays without a verdict.
C18_EverySubmissionGetsVerdict ==
  /\ \A r \in 1..MaxSubmitReq :
        SubmitAccepted(r) ~> (r \in Reqs /\ VerdictStored(r))
  /\ [](\A r \in Reqs : (SubmitAccepted(r) /\ reqs[r].pc = "done") => VerdictStored(r))
  /\ [](\A i \in DOMAIN submissions :
           \E r \in Reqs : SubmitAccepted(r) /\ reqs[r].submissionId = submissions[i].id)

\* a correct and a wrong submission have both been answered
C18_Witness ==
  \E r1, r2 \in Reqs :
     /\ SubmitAccepted(r1) /\ VerdictStored(r1) /\ reqs[r1].validation.valid
     /\ SubmitAccepted(r2) /\ VerdictStored(r2) /\ ~reqs[r2].validation.valid

\* ------------------------------------------------------------ code puzzles
\* a1 creates code_golf practice matches and submits code to them: code
\* that computes the puzzle's function or another one, short or long, with
\* or without a denylisted token.
MaxGolfReq == 2      \* requests started in one behaviour of SpecGolf
GolfComputes == {0, 2}
GolfChars == {5, 189, 250}
GolfTokens == {{}, {"eval"}, {"require", "Proxy"}}
GolfSolutions ==
  {[computes |-> c, chars |-> n, tokens |-> t] :
     c \in GolfComputes, n \in GolfChars, t \in GolfTokens}

NextGolf ==
  \/ /\ Len(reqs) < MaxGolfReq
     /\ \E k \in PracticeKeys : PracticeCreate(k, "code_golf")
  \/ /\ Len(reqs) < MaxGolfReq
     /\ \E k \in PracticeKeys, m \in DOMAIN matches, sol \in GolfSolutions :
           SubmitStart(k, m, sol)
  \/ \E r \in Reqs : SubmitRead(r)
  \/ \E r \in Reqs : SubmitExisting(r)
  \/ \E r \in Reqs : SubmitInsert(r)
  \/ \E r \in Reqs : SubmitMark(r)
  \/ \E r \in Reqs : SubmitComplete(r)
  \/ \E m \in DOMAIN matches : PracticeTimer(m)

SpecGolf == Init /\ [][NextGolf]_vars

\* The code submissions that have been judged
Judged ==
  {r \in Reqs : /\ reqs[r].kind = "submit"
                /\ reqs[r].validation # EmptyObject
                /\ reqs[r].match.challenge_data.type = "code_golf"}

\* C19: a code submission containing a denylisted token is rejected with
\* valid = false and score 0 and the judge executes it on no test case,
\* whatever the code would have returned.
C19_DenylistedRejectedUnrun ==
  \A r \in Judged :
     reqs[r].solution.tokens \cap Denylist # {}
       => /\ reqs[r].validation.valid = FALSE
          /\ reqs[r].validation.score = 0
          /\ ExecutedCases(reqs[r].match.challenge_data, reqs[r].solution) = <<>>

\* code that computes the puzzle's function but contains eval was rejected
C19_Witness ==
  \E r \in Judged :
     /\ "eval" \in reqs[r].solution.tokens
     /\ \A i \in DOMAIN reqs[r].match.challenge_data.testCases :
           ReferenceSolve(reqs[r].solution.computes,
                          reqs[r].match.challenge_data.testCases[i].input)
             = reqs[r].match.challenge_data.testCases[i].expected
     /\ reqs[r].pc = "done"
     /\ reqs[r].resp.status = 200
     /\ ~reqs[r].resp.validation.valid

\* The judge has run the submission on every test case and every returned
\* value equals the expected output.
EveryCasePasses(r) ==
  LET cd == reqs[r].match.challenge_data
      run == ExecutedCases(cd, reqs[r].solution)
  IN /\ Len(run) = Len(cd.testCases)
     /\ \A i \in DOMAIN run :
           ReferenceSolve(reqs[r].solution.computes, run[i]) = cd.testCases[i].expected

\* What the arena has recorded as the score of an answered submission
StoredScore(r) ==
  LET i == CHOOSE k \in DOMAIN submissions : submissions[k].id = reqs[r].submissionId
  IN submissions[i].score

MaxJudgeReq == 2     \* requests started in one behaviour of SpecJudge
JudgeSolutions ==
  {[computes |-> c, chars |-> 5, tokens |-> {}, loops |-> l] :
     c \in {0, 2}, l \in {{}, {3}, {2, 3}}}

NextJudge ==
  \/ /\ Len(reqs) < MaxJudgeReq
     /\ \E k \in PracticeKeys : PracticeCreate(k, "code_golf")
  \/ /\ Len(reqs) < MaxJudgeReq
     /\ \E k \in PracticeKeys, m \in DOMAIN matches, sol \in JudgeSolutions :
           SubmitStart(k, m, sol)
  \/ \E r \in Reqs : SubmitRead(r)
  \/ \E r \in Reqs : SubmitExisting(r)
  \/ \E r \in Reqs : SubmitInsert(r)
  \/ \E r \in Reqs : SubmitMark(r)
  \/ \E r \in Reqs : SubmitComplete(r)
  \/ \E m \in DOMAIN matches : PracticeTimer(m)

SpecJudge ==
  /\ Init /\ [][NextJudge]_vars
  /\ WF_vars(\E r \in Reqs : SubmitRead(r))
  /\ WF_vars(\E r \in Reqs : SubmitExisting(r))
  /\ WF_vars(\E r \in Reqs : SubmitInsert(r))
  /\ WF_vars(\E r \in Reqs : SubmitMark(r))
  /\ WF_vars(\E r \in Reqs : SubmitComplete(r))

\* The submit request carries code that never returns on one of the test
\* cases of its match.
LoopingSubmit(r) ==
  /\ r \in Reqs
  /\ reqs[r].kind = "submit"
  /\ reqs[r].pc \notin {"submit_read", "done"} \/ reqs[r].validation # EmptyObject
  /\ reqs[r].match.challenge_data.type = "code_golf"
  /\ \E i \in DOMAIN reqs[r].match.challenge_data.testCases :
        reqs[r].match.challenge_data.testCases[i].input \in reqs[r].solution.loops

\* C21: code that loops forever on a test case is torn down at the 5 second
\* timeout and the case counts as failed: the judge hands back valid =
\* false with score 0, and the request that carries the code is answered,
\* so the judge is never blocked.
C21_LoopingCodeIsTimedOut ==
  /\ \A r \in 1..MaxJudgeReq :
        LoopingSubmit(r) ~> (r \in Reqs /\ reqs[r].pc = "done")
  /\ [](\A r \in Reqs :
          (LoopingSubmit(r) /\ reqs[r].validation # EmptyObject)
            => /\ reqs[r].validation = [valid |-> FALSE, score |-> 0]
               /\ \E i \in DOMAIN reqs[r].match.challenge_data.testCases :
                     SandboxRun(reqs[r].solution,
                                reqs[r].match.challenge_data.testCases[i].input) = "timeout"
               /\ reqs[r].pc = "done" => reqs[r].resp.validation = reqs[r].validation)

\* code that computes the puzzle's function on the first test case and
\* never returns on the second has been answered as not valid
C21_Witness ==
  \E r \in Reqs :
     /\ LoopingSubmit(r)
     /\ reqs[r].solution.loops = {3}
     /\ reqs[r].solution.computes = reqs[r].match.challenge_data.description
     /\ reqs[r].pc = "done"
     /\ reqs[r].resp.status = 200
     /\ ~reqs[r].resp.validation.valid


\* ------------------------------------------------------------ hash hunt
\* a1 creates hash_hunt practice matches and submits strings to them; a
\* string is given by the first hex digits of its SHA256.
MaxHashReq == 2      \* requests started in one behaviour of SpecHash
HashDigests ==
  {<<0, 0, 7, 0, 0, 0>>, <<0, 1, 0, 0, 0, 0>>, <<0, 0, 0, 7, 0, 0>>,
   <<0, 0, 0, 0, 0, 3>>, <<7, 0, 0, 0, 0, 0>>, <<0, 0, 0, 0, 7, 0>>}
HashSolutions == {[digest |-> d] : d \in HashDigests}

NextHash ==
  \/ /\ Len(reqs) < MaxHashReq
     /\ \E k \in PracticeKeys : PracticeCreate(k, "hash_hunt")
  \/ /\ Len(reqs) < MaxHashReq
     /\ \E k \in PracticeKeys, m \in DOMAIN matches, sol \in HashSolutions :
           SubmitStart(k, m, sol)
  \/ \E r \in Reqs : SubmitRead(r)
  \/ \E r \in Reqs : SubmitExisting(r)
  \/ \E r \in Reqs : SubmitInsert(r)
  \/ \E r \in Reqs : SubmitMark(r)
  \/ \E r \in Reqs : SubmitComplete(r)
  \/ \E m \in DOMAIN matches : PracticeTimer(m)

SpecHash == Init /\ [][NextHash]_vars

\* The hex digest starts with at least n zero digits
StartsWithZeros(digest, n) ==
  Len(digest) >= n /\ \A i \in 1..n : digest[i] = 0

\* The string submissions that have been judged against a hash pattern
HashJudged ==
  {r \in Reqs : /\ reqs[r].kind = "submit"
                /\ reqs[r].validation # EmptyObject
                /\ reqs[r].match.challenge_data.type = "hash_hunt"}

\* C22: for a hash_hunt challenge of kind leading_zeros that requires N
\* zeros a submitted string is valid with score 100 exactly when the hex
\* digest of its SHA256 starts with at least N zero digits, and is not
\* valid with score 0 otherwise: for the verdict of every judged
\* submission, and for every difficulty of the generator.
C22_LeadingZeros ==
  /\ \A r \in HashJudged :
        LET cd == reqs[r].match.challenge_data
            verdict == IF StartsWithZeros(reqs[r].solution.digest, cd.zeros)
                       THEN [valid |-> TRUE, score |-> 100]
                       ELSE [valid |-> FALSE, score |-> 0]
        IN /\ cd.hunt_type = "leading_zeros"
           /\ reqs[r].validation = verdict
           /\ reqs[r].pc = "done" => reqs[r].resp.validation = verdict
  /\ \A difficulty \in 1..5, seed \in Seeds, d \in HashDigests :
        LET cd == generateChallenge("hash_hunt", difficulty, seed)
        IN validateSolution(cd, [digest |-> d]) =
             (IF StartsWithZeros(d, cd.zeros)
              THEN [valid |-> TRUE, score |-> 100]
              ELSE [valid |-> FALSE, score |-> 0])

\* a string whose digest starts 00 has been answered as valid with score
\* 100 for a pattern of two zeros
C22_Witness ==
  \E r \in HashJudged :
     /\ reqs[r].pc = "done"
     /\ reqs[r].match.challenge_data.zeros = 2
     /\ reqs[r].solution.digest = <<0, 0, 7, 0, 0, 0>>
     /\ reqs[r].resp.validation = [valid |-> TRUE, score |-> 100]

\* ------------------------------------------------------------ malformed requests
\* Create requests that name a challenge type outside the catalogue or a
\* difficulty outside 1..5, next to well-formed ones.
MaxMalformedReq == 2 \* requests started in one behaviour of SpecMalformed
MalformedTypes == {"bogus", "code_golf"}
MalformedDifficulties == {3, 9}

NextMalformed ==
  \/ /\ Len(reqs) < MaxMalformedReq
     /\ \E k \in Keys, ct \in MalformedTypes, d \in MalformedDifficulties :
           CreateStart(k, ct, ENTRY_FEE_WEI, d, NoTx)
  \/ \E r \in Reqs : CreateInsert(r)

SpecMalformed == Init /\ [][NextMalformed]_vars

\* The request names a type that is no challenge type, or a difficulty that
\* is given and is not one of 1..5.
MalformedCreate(r) ==
  /\ reqs[r].kind = "create"
  /\ reqs[r].agent # NULL
  /\ \/ reqs[r].challengeType \notin {ChallengeTypes[i] : i \in 1..3} \cup {"random"}
     \/ reqs[r].difficulty \notin 0..5

\* C24: a create request with an unknown challenge type or an out-of-range
\* difficulty is answered with a failure, and no match is stored for it.
C24_MalformedCreateRejected ==
  \A r \in Reqs :
     (MalformedCreate(r) /\ reqs[r].pc = "done")
       => /\ reqs[r].resp.status >= 400
          /\ reqs[r].matchId = NoMatch
          /\ \A id \in DOMAIN matches :
                /\ matches[id].challenge_type \in {ChallengeTypes[i] : i \in 1..3}


\* ------------------------------------------------------------ paid joins
\* Custom matches created with or without a payment and join requests with
\* payments of every kind: good ones, one below the fee, a reverted one,
\* one sent elsewhere, one sent from another wallet.
MaxPaidReq == 3      \* requests started in one behaviour of SpecPaid
PaidJoinTxs == {"t1", "t3", "tLow", "tRev", "tElse"}

NextPaid ==
  \/ /\ Len(reqs) < MaxPaidReq
     /\ \E k \in Keys, tx \in CreateTxs : CreateStart(k, "cipher_break", ENTRY_FEE_WEI, 0, tx)
  \/ /\ Len(reqs) < MaxPaidReq
     /\ \E k \in Keys, m \in DOMAIN matches, tx \in PaidJoinTxs : JoinStart(k, m, tx)
  \/ \E r \in Reqs : CreateCheck(r)
  \/ \E r \in Reqs : CreateInsert(r)
  \/ \E r \in Reqs : CreateRecord(r)
  \/ \E r \in Reqs : JoinRead(r)
  \/ \E r \in Reqs : JoinCheck(r)
  \/ \E r \in Reqs : JoinUpdate(r)
  \/ \E r \in Reqs : JoinRecord(r)

SpecPaid == Init /\ [][NextPaid]_vars

\* The join requests that have made the agent the opponent of the match
Joined(id, agent) ==
  {r \in Reqs : /\ reqs[r].kind = "join"
                /\ reqs[r].matchId = id
                /\ reqs[r].agent = agent
                /\ reqs[r].pc \in {"join_record", "done"}
                /\ <<reqs[r].txHash, id>> \in accepted}

\* The transaction is the entry payment of no other match
UsedForNoOther(txHash, id) ==
  /\ \A e \in accepted : e[1] = txHash => e[2] = id
  /\ \A p \in payments : p.tx_hash = txHash => p.match_id = id

\* C25: a custom match has an opponent only through a join request whose
\* transaction succeeded on chain, was sent from the opponent's registered
\* wallet to the arena wallet, is worth at least the entry fee of the match
\* and is not used for any other match; without such a transaction the
\* match is open, as it was created.
C25_JoinOnlyWithFreshValidPayment ==
  \A id \in DOMAIN matches :
     LET m == matches[id]
     IN IF m.opponent_id = NULL
        THEN m.status = "open" /\ m.started_at = NoTime
        ELSE \E r \in Joined(id, m.opponent_id) :
                LET tx == Chain[reqs[r].txHash]
                IN /\ tx.status = "success"
                   /\ tx.from = agents[m.opponent_id].wallet
                   /\ tx.to = ARENA_WALLET
                   /\ tx.value >= m.entry_fee_wei
                   /\ UsedForNoOther(reqs[r].txHash, id)


\* ------------------------------------------------------------ entry fees
\* Create requests with fees below, at and above 0.0001 ETH, the largest a
\* thousand times the minimum, without a payment or with t1 (worth the
\* minimum).
MaxFeeReq == 2       \* requests started in one behaviour of SpecFee
FeeInputs == {1, 9, 10, 11, 10000}

NextFee ==
  \/ /\ Len(reqs) < MaxFeeReq
     /\ \E k \in Keys, fee \in FeeInputs, tx \in CreateTxs :
           CreateStart(k, "hash_hunt", fee, 0, tx)
  \/ \E r \in Reqs : CreateCheck(r)
  \/ \E r \in Reqs : CreateInsert(r)
  \/ \E r \in Reqs : CreateRecord(r)

SpecFee == Init /\ [][NextFee]_vars

\* The matches stored with the entry fee of the request
StoredFor(r) ==
  {id \in DOMAIN matches : /\ matches[id].creator_id = reqs[r].agent
                           /\ matches[id].entry_fee_wei = reqs[r].entryFeeWei}

\* C26: a create request with an entry fee below 0.0001 ETH is answered
\* 400 'Entry fee too low' at once and no match is stored with that fee; a
\* request with a fee at or above the minimum, however large, is never
\* turned away for its fee, and without a payment to verify it is answered
\* with an open match that carries the fee.
C26_MinimumEntryFee ==
  \A r \in Reqs :
     reqs[r].kind = "create" =>
       IF reqs[r].entryFeeWei < MIN_FEE_WEI
       THEN /\ reqs[r].pc = "done"
            /\ reqs[r].resp.status = 400
            /\ reqs[r].resp.error = "Entry fee too low"
            /\ reqs[r].matchId = NoMatch
            /\ StoredFor(r) = {}
       ELSE /\ reqs[r].pc = "done" /\ reqs[r].resp.status # 200
                 => reqs[r].resp.error # "Entry fee too low"
            /\ reqs[r].pc = "done" /\ reqs[r].txHash = NoTx
                 => /\ reqs[r].resp.status = 200
                    /\ reqs[r].resp.entry_fee_wei = reqs[r].entryFeeWei
                    /\ reqs[r].matchId \in StoredFor(r)
                    /\ matches[reqs[r].matchId].status = "open"

\* a fee just below the minimum has been turned away and a fee of a
\* thousand times the minimum has been accepted
C26_Witness ==
  \E r1, r2 \in Reqs :
     /\ reqs[r1].entryFeeWei = 9 /\ reqs[r1].resp.status = 400
     /\ reqs[r2].pc = "done" /\ reqs[r2].resp.status = 200
     /\ reqs[r2].entryFeeWei = 10000


\* ------------------------------------------------------------ authenticateAgent
\* Requests to the six routes behind authenticateAgent, with the key of a1
\* or a2 or without a registered key, while a quick match between a1 and a2
\* is active.
MaxAuthReq == 2      \* requests started in one behaviour of SpecAuth
AuthKeys == {"k1", "k2", NoKey}

NextAuth ==
  \/ /\ Len(reqs) < MaxAuthReq
     /\ \E k \in AuthKeys : PayStart(k, "t2", NoMatch)
  \/ /\ Len(reqs) < MaxAuthReq
     /\ \E k \in AuthKeys : QueueStart(k, "cipher_break", 2)
  \/ /\ Len(reqs) < MaxAuthReq
     /\ \E k \in AuthKeys : CreateStart(k, "cipher_break", ENTRY_FEE_WEI, 0, NoTx)
  \/ /\ Len(reqs) < MaxAuthReq
     /\ \E k \in AuthKeys, m \in DOMAIN matches : JoinStart(k, m, "t2")
  \/ /\ Len(reqs) < MaxAuthReq
     /\ \E k \in AuthKeys, m \in DOMAIN matches, sol \in PracticeSolutions :
           SubmitStart(k, m, sol)
  \/ /\ Len(reqs) < MaxAuthReq
     /\ \E k \in AuthKeys : PracticeCreate(k, "cipher_break")
  \/ \E r \in Reqs : PayCheck(r)
  \/ \E r \in Reqs : PayRecord(r)
  \/ \E r \in Reqs : QueueAfford(r)
  \/ \E r \in Reqs : QueuePush(r)
  \/ \E r \in Reqs : QueueInsert(r)
  \/ \E r \in Reqs : CreateInsert(r)
  \/ \E r \in Reqs : JoinRead(r)
  \/ \E r \in Reqs : JoinCheck(r)
  \/ \E r \in Reqs : JoinUpdate(r)
  \/ \E r \in Reqs : JoinRecord(r)
  \/ \E r \in Reqs : SubmitRead(r)
  \/ \E r \in Reqs : SubmitExisting(r)
  \/ \E r \in Reqs : SubmitInsert(r)
  \/ \E r \in Reqs : SubmitMark(r)
  \/ \E r \in Reqs : SubmitCount(r)
  \/ \E r \in Reqs : SubmitComplete(r)
  \/ \E r \in Reqs : SubmitPayout(r)
  \/ \E m \in DOMAIN matches : PracticeTimer(m)

SpecAuth == InitActive /\ [][NextAuth]_vars

\* The requests that came without the key of a registered agent
Unauthenticated == {r \in Reqs : reqs[r].agent = NULL}

\* C27: a request to pay, queue, create, join, submit or practice without
\* the API key of a registered agent is answered 401; the step that takes
\* it in changes no match, queue entry, payment or submission, and the
\* request takes no step after its answer.
C27_UnauthenticatedRejected ==
  /\ [](\A r \in Unauthenticated :
          /\ reqs[r].kind \in {"pay", "queue", "create", "join", "submit", "practice"}
          /\ reqs[r].pc = "done"
          /\ reqs[r].resp.status = 401)
  /\ [][(Len(reqs') > Len(reqs) /\ reqs'[Len(reqs')].agent = NULL)
          => UNCHANGED <<agents, matches, matchQueue, payments, paymentStatus,
                         submissions, payouts, timers, feed, accepted>>]_vars
  /\ [][\A r \in Unauthenticated : reqs'[r] = reqs[r]]_vars

\* a request to pay, queue or create and a request to join, submit or
\* practice have both been turned away
C27_Witness ==
  \E r1, r2 \in Unauthenticated :
     /\ r1 # r2
     /\ reqs[r1].kind \in {"pay", "queue", "create"}
     /\ reqs[r2].kind \in {"join", "submit", "practice"}
     /\ reqs[r1].resp.status = 401 /\ reqs[r2].resp.status = 401


\* ------------------------------------------------------------ completion
\* The submit requests and the timeout checker of SpecTimeout on the
\* active quick match between a1 and a2.

\* C28: completed is terminal: the status of a match never moves back from
\* active to open, and once a match is completed neither its status nor
\* its winner_id changes, whatever the submit handlers and the timeout
\* checker do next.
C28_CompletedIsTerminal ==
  [][\A id \in DOMAIN matches :
       /\ matches[id].status = "active" => matches'[id].status \in {"active", "completed"}
       /\ matches[id].status = "completed" =>
            /\ matches'[id].status = "completed"
            /\ matches'[id].winner_id = matches[id].winner_id]_vars

\* The payouts sent for the match
PayoutsOf(id) == {i \in DOMAIN payouts : payouts[i].match_id = id}

\* C29: at most one payout is sent for a match, and a payout is only sent
\* for a completed match that is no practice match, to the wallet of its
\* recorded winner.
C29_AtMostOnePayout ==
  \A id \in DOMAIN matches :
     /\ Cardinality(PayoutsOf(id)) <= 1
     /\ \A i \in PayoutsOf(id) :
           /\ matches[id].status = "completed"
           /\ matches[id].is_practice = 0
           /\ matches[id].winner_id # NULL
           /\ payouts[i].to = agents[matches[id].winner_id].wallet

\* The completed matches that count for the record of the agent
CountedMatches(a) ==
  {id \in DOMAIN matches : /\ matches[id].status = "completed"
                           /\ matches[id].is_practice = 0
                           /\ a \in {matches[id].agent1_id, matches[id].agent2_id}}

\* C30: the record of an agent counts every completed match that is no
\* practice match once: wins + losses + draws is the number of such matches
\* the agent took part in.
C30_RecordCountsEachMatchOnce ==
  \A a \in AgentIds :
     agents[a].wins + agents[a].losses + agents[a].draws = Cardinality(CountedMatches(a))


\* ------------------------------------------------------------ payment balance
\* a1 and a2, each with one verified payment of one entry fee, ask for
\* quick matches again and again.
MaxBalanceReq == 4   \* requests started in one behaviour of SpecBalance

NextBalance ==
  \/ /\ Len(reqs) < MaxBalanceReq
     /\ \E k \in Keys : QueueStart(k, "cipher_break", 2)
  \/ \E r \in Reqs : QueueAfford(r)
  \/ \E r \in Reqs : QueuePush(r)
  \/ \E r \in Reqs : QueueInsert(r)

SpecBalance == InitPaid /\ [][NextBalance]_vars

\* The quick matches the agent has entered
QuickMatchesOf(a) ==
  {id \in DOMAIN matches : /\ matches[id].is_practice = 0
                           /\ a \in {matches[id].agent1_id, matches[id].agent2_id}}

\* C31: the quick matches an agent has entered cost no more than the
\* agent's verified payments (one entry fee each), and the winner payouts
\* of all quick matches together do not exceed the payments of all agents.
C31_BalanceIsConsumed ==
  /\ \A a \in AgentIds :
        ENTRY_FEE_WEI * Cardinality(QuickMatchesOf(a)) <= getAgentPaymentBalance(a)
  /\ Cardinality(DOMAIN matches) * QuickWinnerPayout
        <= getAgentPaymentBalance("a1") + getAgentPaymentBalance("a2")


\* ------------------------------------------------------------ one opponent
\* The join requests of SpecJoin on the open matches of a1 and a2.

\* The entry payments recorded for the match on behalf of the agent
EntryPayments(id, a) == {p \in payments : p.match_id = id /\ p.agent_id = a}

\* C32: an open match is joined once: a match that a join has made active
\* keeps its agent2_id and opponent_id under every later step, its opponent
\* is not its creator, and one entry payment at most is recorded for it on
\* behalf of the opponent.
C32_JoinedOnce ==
  /\ [](\A id \in DOMAIN matches :
          /\ matches[id].opponent_id # matches[id].creator_id
          /\ matches[id].opponent_id # NULL =>
                Cardinality(EntryPayments(id, matches[id].opponent_id)) <= 1)
  /\ [][\A id \in DOMAIN matches :
          matches[id].status = "active" =>
            /\ matches'[id].agent2_id = matches[id].agent2_id
            /\ matches'[id].opponent_id = matches[id].opponent_id]_vars


\* ------------------------------------------------------------ one submission
\* The submit requests of SpecSubmit on the active quick match.

\* The submissions the agent has stored for the match
SubmissionsOf(id, a) ==
  {i \in DOMAIN submissions : submissions[i].match_id = id /\ submissions[i].agent_id = a}

\* C33: a match holds at most one submission of each agent, and of the
\* submit requests of one agent for one match at most one is answered with
\* a verdict.
C33_OneSubmissionPerAgent ==
  /\ \A id \in DOMAIN matches, a \in AgentIds : Cardinality(SubmissionsOf(id, a)) <= 1
  /\ \A r1, r2 \in Reqs :
        (/\ reqs[r1].kind = "submit" /\ reqs[r2].kind = "submit"
         /\ reqs[r1].agent = reqs[r2].agent /\ reqs[r1].matchId = reqs[r2].matchId
         /\ reqs[r1].resp.status = 200 /\ reqs[r2].resp.status = 200)
          => r1 = r2


\* ------------------------------------------------------------ best submission
\* The server five minutes after a1 and a2, both paid, have been paired by
\* /queue into a quick code_golf match (time limit 300 seconds): the
\* submit requests that follow and the timeout checker.
GolfEntries ==
  [agent1Entry |-> [agent |-> "a1", challenge_type |-> "code_golf", difficulty |-> 2],
   agent2Entry |-> [agent |-> "a2", challenge_type |-> NULL, difficulty |-> 2]]

InitGolfMatch ==
  \E challengeSeed \in Seeds :
     LET challenge == generateChallenge("code_golf", 2, challengeSeed)
     IN /\ now = 0
        /\ agents = [a \in AgentIds \cup {PracticeBotId} |-> AgentRow(a)]
        /\ payments = {PaidRow(1, "a1", "t1"), PaidRow(2, "a2", "t3")}
        /\ paymentStatus = [a \in AgentIds \cup {PracticeBotId} |->
                              IF a = "a1" THEN <<"pay", 1>>
                              ELSE IF a = "a2" THEN <<"pay", 2>> ELSE NoPayment]
        /\ matches = (MatchId(1) :>
                        [QuickMatchRow(MatchId(1), GolfEntries.agent1Entry,
                                       GolfEntries.agent2Entry, challenge, challengeSeed)
                           EXCEPT !.started_at = now - 5])
        /\ submissions = <<>>
        /\ matchQueue = <<>>
        /\ pendingChallenges = <<>>
        /\ issued = <<>>
        /\ reqs = <<>>
        /\ payouts = <<>>
        /\ timers = {}
        /\ feed = {[event |-> "match_started",
                    data |-> [match_id |-> FinalMatchId(1), agent1 |-> "a1", agent2 |-> "a2",
                              challenge_type |-> "code_golf",
                              entry_fee_wei |-> ENTRY_FEE_WEI]]}
        /\ accepted = {}
        /\ checker = Idle

MaxBestReq == 2      \* submit requests in one behaviour of SpecBest
BestSolutions ==
  {[computes |-> c, chars |-> n, tokens |-> {}] : c \in {0, 2}, n \in {5, 189}}

NextBest ==
  \/ /\ Len(reqs) < MaxBestReq
     /\ \E k \in Keys, m \in DOMAIN matches, sol \in BestSolutions : SubmitStart(k, m, sol)
  \/ \E r \in Reqs : SubmitRead(r)
  \/ \E r \in Reqs : SubmitExisting(r)
  \/ \E r \in Reqs : SubmitInsert(r)
  \/ \E r \in Reqs : SubmitMark(r)
  \/ \E r \in Reqs : SubmitCount(r)
  \/ \E r \in Reqs : SubmitComplete(r)
  \/ \E r \in Reqs : SubmitPayout(r)
  \/ Tick
  \/ CheckerStart
  \/ CheckerRead
  \/ CheckerComplete

SpecBest == InitGolfMatch /\ [][NextBest]_vars

\* The submission ranks first among the correct ones: none has a higher
\* score, and every earlier one has a lower score.
RanksFirst(correctSubmissions, i) ==
  /\ \A j \in DOMAIN correctSubmissions :
        correctSubmissions[j].score <= correctSubmissions[i].score
  /\ \A j \in 1..(i - 1) : correctSubmissions[j].score < correctSubmissions[i].score

\* The checker completes a regular match
CheckerCompletes(id) ==
  /\ checker.pc = "complete"
  /\ checker'.pc # "complete"
  /\ checker.cur.id = id
  /\ checker.cur.is_practice = 0

\* C35: when the timeout checker completes a match that is no practice
\* match and has correct submissions, the winner it stores is the agent of
\* the correct submission with the highest score, the earliest one among
\* equal scores.
C35_BestSubmissionWins ==
  [][\A id \in DOMAIN matches :
       (CheckerCompletes(id) /\ CorrectSubmissions(id) # <<>>)
         => \E i \in DOMAIN CorrectSubmissions(id) :
               /\ RanksFirst(CorrectSubmissions(id), i)
               /\ matches'[id].winner_id = CorrectSubmissions(id)[i].agent_id]_vars

\* The same for the correct submissions the checker has read
C35_BestOfReadWins ==
  [][\A id \in DOMAIN matches :
       (CheckerCompletes(id) /\ checker.correct # <<>>)
         => \E i \in DOMAIN checker.correct :
               /\ RanksFirst(checker.correct, i)
               /\ matches'[id].winner_id = checker.correct[i].agent_id]_vars


\* ------------------------------------------------------------ winners
\* A custom match created with the key of the PracticeBot row (a third
\* registered agent, its key is a constant of database.js), the join
\* requests of a1 and a2 and their submit requests.
MaxSwapReq == 4      \* requests started in one behaviour of SpecSwap
BOT_KEY == ApiKeyOf(PracticeBotId)
SwapTxs == {"t1", "t3"}

NextSwap ==
  \/ /\ Len(reqs) < MaxSwapReq
     /\ DOMAIN matches = {}
     /\ CreateStart(BOT_KEY, "cipher_break", ENTRY_FEE_WEI, 0, NoTx)
  \/ /\ Len(reqs) < MaxSwapReq
     /\ \E k \in Keys, m \in DOMAIN matches, tx \in SwapTxs : JoinStart(k, m, tx)
  \/ /\ Len(reqs) < MaxSwapReq
     /\ \E k \in Keys, m \in DOMAIN matches, sol \in TimeoutSolutions : SubmitStart(k, m, sol)
  \/ \E r \in Reqs : CreateInsert(r)
  \/ \E r \in Reqs : JoinRead(r)
  \/ \E r \in Reqs : JoinCheck(r)
  \/ \E r \in Reqs : JoinUpdate(r)
  \/ \E r \in Reqs : JoinRecord(r)
  \/ \E r \in Reqs : SubmitRead(r)
  \/ \E r \in Reqs : SubmitExisting(r)
  \/ \E r \in Reqs : SubmitInsert(r)
  \/ \E r \in Reqs : SubmitMark(r)
  \/ \E r \in Reqs : SubmitCount(r)
  \/ \E r \in Reqs : SubmitComplete(r)
  \/ \E r \in Reqs : SubmitPayout(r)

SpecSwap == Init /\ [][NextSwap]_vars

\* C34: the winner_id of a completed match is null or one of the match's
\* agent1_id and agent2_id, and a winner of a match that is no practice
\* match has a submission marked correct in that match.
C34_WinnerIsAgentOfMatch ==
  \A id \in DOMAIN matches :
     LET m == matches[id]
     IN m.status = "completed" =>
          \/ m.winner_id = NULL
          \/ /\ m.winner_id \in {m.agent1_id, m.agent2_id}
             /\ m.is_practice = 0 =>
                   \E i \in DOMAIN submissions :
                      /\ submissions[i].match_id = id
                      /\ submissions[i].agent_id = m.winner_id
                      /\ submissions[i].correct


\* ------------------------------------------------------------ the queue
\* The queue requests of SpecBalance.

\* The step of a queue request that pushes its entry
Pushes(r) ==
  /\ reqs[r].kind = "queue"
  /\ reqs[r].pc = "queue_push"
  /\ reqs'[r].pc # "queue_push"
  /\ "error" \notin DOMAIN reqs'[r].resp

\* C36: between the steps of the requests the matchmaking queue holds one
\* agent at most, so never the same agent twice: a request of an agent
\* that waits is answered 'Already in queue' and leaves the queue as it
\* is, and the step that pushes a second agent takes both off the queue
\* and pairs them.
C36_QueueHoldsOneAtMost ==
  /\ [](Len(matchQueue) <= 1)
  /\ [][\A r \in Reqs :
          /\ (Pushes(r) /\ matchQueue # <<>>)
               => /\ matchQueue' = <<>>
                  /\ reqs'[r].pc = "queue_insert"
                  /\ reqs'[r].pairing.agent1Entry.agent = matchQueue[1].agent
                  /\ reqs'[r].pairing.agent2Entry.agent = reqs[r].agent
                  /\ reqs[r].agent # matchQueue[1].agent
          /\ (reqs[r].kind = "queue" /\ reqs[r].pc = "queue_push" /\ Waiting(reqs[r].agent))
               => (reqs'[r].pc = "queue_push"
                   \/ (reqs'[r].resp = Error(400, "Already in queue")
                       /\ matchQueue' = matchQueue))]_vars

\* an agent that waits has been told so, and a second agent has been
\* paired with it, leaving the queue empty
C36_Witness ==
  /\ matchQueue = <<>>
  /\ \E r1, r2 \in Reqs :
        /\ reqs[r1].kind = "queue" /\ reqs[r1].resp = Error(400, "Already in queue")
        /\ reqs[r2].kind = "queue" /\ reqs[r2].pairing # EmptyObject
        /\ reqs[r2].pairing.agent1Entry.agent = reqs[r1].agent

=============================================================================
